---- MODULE Spec2Model ----
(***************************************************************************)
(* A state-machine model of veles' worker-thread pool                      *)
(* (src/veles/thread_pool.py) and workflow launcher                        *)
(* (src/veles/launcher.py).                                                *)
(*                                                                         *)
(* Calling threads execute the methods of the two classes statement by     *)
(* statement: every calling thread owns a stack of frames, the top frame   *)
(* is the method being executed and its pc names the source line that      *)
(* runs next.  Worker threads of a pool take items from its queue.         *)
(***************************************************************************)
EXTENDS Integers, Sequences, FiniteSets, TLC

VARIABLES
    pools,            \* ThreadPool.pools, the process-wide registry (a list)
    sysexit_initial,  \* ThreadPool.sysexit_initial
    sigint_initial,   \* ThreadPool.sigint_initial
    sys_exit,         \* what the name sys.exit is bound to
    sigint_cur,       \* the handler installed for SIGINT
    pool,             \* the fields of every ThreadPool object
    wk,               \* the worker threads of every pool
    task,             \* the tasks handed to every pool
    stack,            \* the call stack of every calling thread
    callers,          \* the calling threads of the process
    proc,             \* "running", or "exited" once the interpreter exits
    launcher,         \* the fields of the Launcher object
    mres,             \* results of the last evaluation of the role properties
    remote,           \* the remote launches attempted over SSH, in order
    device_infos,     \* the device cache file: the pickled map of DeviceInfo
    device,           \* the Device object constructed last
    web,              \* the status timer, the HTTP client and the clock
    g                 \* history of the run (read by the properties only)

vars == <<pools, sysexit_initial, sigint_initial, sys_exit, sigint_cur, pool,
          wk, task, stack, callers, web, device, device_infos, remote, proc, launcher, mres, g>>

(***************************************************************************)
(* Bounds of the model.                                                    *)
(***************************************************************************)
MaxPools == 2
MaxWorkers == 2
MaxQueue == 2
MaxTasks == 3
MaxCallbacks == 2
MaxSignals == 1
MaxDepth == 2
MaxAddrLen == 2
MaxStops == 2
MaxRuns == 2
MaxTime == 2
MaxPasses == 2
MaxInterval == 2
MaxClock == 4
MaxFail == 2
MaxDev == 3
MaxMult == 3
MaxArgs == 3

PoolIds == 1..MaxPools
WorkerIds == 1..MaxWorkers
TaskIds == 1..MaxTasks
CallerIds == {1, 2}
MainThread == 1

\* threadpool.WorkerStop, the item that tells a worker to leave its loop.
WorkerStop == 0

Min(a, b) == IF a < b THEN a ELSE b

SeqToSet(s) == {s[i] : i \in 1..Len(s)}

RECURSIVE Remove(_, _)
\* list.remove(x): the list without the first occurrence of x.
Remove(s, x) ==
    IF s = <<>> THEN <<>>
    ELSE IF Head(s) = x THEN Tail(s)
    ELSE <<Head(s)>> \o Remove(Tail(s), x)

(***************************************************************************)
(* Call stacks.                                                            *)
(***************************************************************************)
Frame(op, pc, p, er, force) ==
    [op |-> op, pc |-> pc, p |-> p, er |-> er, force |-> force,
     i |-> 0, n |-> 0, lst |-> <<>>, t0 |-> {}]

Idle(t) == stack[t] = <<>>
Depth(t) == Len(stack[t])
Top(t) == stack[t][Len(stack[t])]
At(t, op, pc) == ~Idle(t) /\ Top(t).op = op /\ Top(t).pc = pc

\* The stack of t with its top frame replaced by f.
Goto(t, f) == [stack EXCEPT ![t][Len(stack[t])] = f]
\* The stack of t after its top frame became f and called the method of frame c.
Call(t, f, c) == [stack EXCEPT ![t] = Append(SubSeq(@, 1, Len(@) - 1), f) \o <<c>>]
\* The stack of t after its top frame returned.
Return(t) == [stack EXCEPT ![t] = SubSeq(@, 1, Len(@) - 1)]

(***************************************************************************)
(* ThreadPool objects.                                                     *)
(***************************************************************************)
NoPool ==
    [made |-> FALSE, minthreads |-> 0, maxthreads |-> 0, queue_size |-> 0,
     q |-> <<>>, putleft |-> FALSE, on_shutdowns |-> <<>>,
     shutting_down |-> FALSE, joined |-> FALSE, workers |-> 0,
     threads |-> <<>>]

NoWorker == [st |-> "none", task |-> 0]
\* A call handed to a pool; darun is the state of the Deferred that
\* deferToThreadPool attached to it ("none" for a plain callInThread).
NoTask == [st |-> "none", forever |-> FALSE, darun |-> "none"]

\* The callbacks a pool owner may register: three plain functions, a function
\* that calls shutdown() of its pool again, a function that registers one more
\* callback, and the bound method Launcher.stop.
PlainCallbacks == {"A", "B", "C"}
PoolCallbacks == PlainCallbacks \cup {"again", "reg"}

\* A callback that raises an exception.
Faulty == "raise"

Registered(p) == p \in SeqToSet(pools)

\* queue.Queue.put blocks while the queue holds maxsize items (maxsize > 0).
Full(p) == pool[p].queue_size > 0 /\ Len(pool[p].q) >= pool[p].queue_size

Working(p) == Cardinality({w \in WorkerIds : wk[p][w].st = "busy"})

Alive(p, w) == wk[p][w].st \in {"idle", "busy"}

RECURSIVE StartWorkers(_, _, _)
\* startAWorker() repeated until the pool has `target` workers: the thread
\* is appended to self.threads and blocks in q.get().
StartWorkers(pl, wks, target) ==
    IF pl.workers >= target \/ \A w \in WorkerIds : wks[w].st # "none"
    THEN <<pl, wks>>
    ELSE LET w == CHOOSE x \in WorkerIds :
                      /\ wks[x].st = "none"
                      /\ \A y \in WorkerIds : wks[y].st = "none" => x <= y
         IN StartWorkers([pl EXCEPT !.workers = @ + 1,
                                    !.threads = Append(@, w)],
                         [wks EXCEPT ![w] = [st |-> "idle", task |-> 0]],
                         target)

\* `if not ThreadPool.pools`, the test that guards the installation of the hooks.
HooksNeeded == pools = <<>>

NextPool == CHOOSE p \in PoolIds : ~pool[p].made /\ \A r \in PoolIds : ~pool[r].made => p <= r

\* ThreadPool.__init__
NewPool(t, mn, mx, qs) ==
    /\ proc = "running" /\ t \in callers /\ Idle(t)
    /\ \E p \in PoolIds : ~pool[p].made
    /\ mn <= mx
    /\ LET p == NextPool
           fresh == [NoPool EXCEPT !.made = TRUE, !.minthreads = mn,
                                   !.maxthreads = mx, !.queue_size = qs]
           st == StartWorkers(fresh, [w \in WorkerIds |-> NoWorker], mn)
       IN /\ pool' = [pool EXCEPT ![p] = st[1]]
          /\ wk' = [wk EXCEPT ![p] = st[2]]
          /\ IF HooksNeeded
             THEN /\ sysexit_initial' = sys_exit
                  /\ sys_exit' = "wrapper"
                  /\ sigint_initial' = sigint_cur
                  /\ sigint_cur' = "wrapper"
                  /\ g' = [g EXCEPT !.installs = @ + 1]
             ELSE UNCHANGED <<sysexit_initial, sys_exit, sigint_initial, sigint_cur, g>>
          /\ pools' = Append(pools, p)
    /\ UNCHANGED <<task, stack, callers, web, device, device_infos, remote, proc, launcher, mres>>

\* The program starts one more thread, which may call the pool and the
\* launcher as the main thread does.
StartThread(t) ==
    /\ proc = "running"
    /\ t \notin callers
    /\ callers' = callers \cup {t}
    /\ UNCHANGED <<pools, sysexit_initial, sigint_initial, sys_exit, sigint_cur,
                   pool, wk, task, stack, web, device, device_infos, remote, proc,
                   launcher, mres, g>>

\* Queue._put appends; ThreadPool._put (lines 75-80) inserts at the left.
PutItem(q, putleft, item) == IF putleft THEN <<item>> \o q ELSE Append(q, item)

NextTask(p) == CHOOSE k \in TaskIds : task[p][k].st = "none" /\ \A j \in TaskIds : task[p][j].st = "none" => k <= j

\* ThreadPool.request: callInThread() drops the task once the pool is joined,
\* otherwise puts it on the queue and starts workers up to
\* min(max, qsize + working).
request(t, p, forever) ==
    /\ proc = "running" /\ t \in callers /\ Idle(t)
    /\ pool[p].made
    /\ \E k \in TaskIds : task[p][k].st = "none"
    /\ g.ntasks < MaxTasks
    /\ IF pool[p].joined
       THEN UNCHANGED <<pool, wk, task, g>>
       ELSE /\ ~Full(p)
            /\ LET k == NextTask(p)
                   pl == [pool[p] EXCEPT !.q = PutItem(@, pool[p].putleft, k)]
                   st == StartWorkers(pl, wk[p],
                             Min(pl.maxthreads, Len(pl.q) + Working(p)))
               IN /\ pool' = [pool EXCEPT ![p] = st[1]]
                  /\ wk' = [wk EXCEPT ![p] = st[2]]
                  /\ task' = [task EXCEPT ![p][k] = [st |-> "queued", forever |-> forever,
                                                     darun |-> "none"]]
                  /\ g' = [g EXCEPT !.ntasks = @ + 1]
    /\ UNCHANGED <<pools, sysexit_initial, sigint_initial, sys_exit, sigint_cur,
                   stack, callers, web, device, device_infos, remote, proc, launcher, mres>>

\* ThreadPool.register_on_shutdown
register_on_shutdown(t, p, cb) ==
    /\ proc = "running" /\ t \in callers /\ Idle(t)
    /\ pool[p].made
    /\ g.nregs < MaxCallbacks
    /\ pool' = [pool EXCEPT ![p].on_shutdowns = Append(@, cb)]
    /\ g' = [g EXCEPT !.nregs = @ + 1]
    /\ UNCHANGED <<pools, sysexit_initial, sigint_initial, sys_exit, sigint_cur,
                   wk, task, stack, callers, web, device, device_infos, remote, proc, launcher, mres>>

(***************************************************************************)
(* Worker threads (twisted's ThreadPool._worker, started by self.start()). *)
(***************************************************************************)
\* o = self.q.get(): a WorkerStop ends the thread, anything else is run.
WorkerGet(p, w) ==
    /\ wk[p][w].st = "idle"
    /\ pool[p].q # <<>>
    /\ LET o == Head(pool[p].q)
       IN IF o = WorkerStop
          THEN /\ wk' = [wk EXCEPT ![p][w].st = "dead"]
               /\ pool' = [pool EXCEPT ![p].q = Tail(@),
                                       ![p].threads = Remove(@, w)]
               /\ UNCHANGED <<task, g>>
          ELSE /\ wk' = [wk EXCEPT ![p][w] = [st |-> "busy", task |-> o]]
               /\ pool' = [pool EXCEPT ![p].q = Tail(@)]
               /\ task' = [task EXCEPT ![p][o].st = "running"]
               /\ g' = [g EXCEPT !.late[p] =
                            @ \cup (IF o \in g.undisp[p] THEN {o} ELSE {})]
    /\ UNCHANGED <<pools, sysexit_initial, sigint_initial, sys_exit, sigint_cur,
                   stack, callers, web, device, device_infos, remote, proc, launcher, mres>>

\* What self.workflow.run may do: return a true value, return None (or any
\* other false value), raise.
Results == {"True", "None", "failed"}

\* The task ends and the worker goes back to q.get(); the outcome of a
\* deferred call is handed to the reactor (callFromThread).
WorkerDone(p, w) ==
    /\ wk[p][w].st = "busy"
    /\ ~task[p][wk[p][w].task].forever
    /\ \E res \in (IF task[p][wk[p][w].task].darun = "pending" THEN Results ELSE {"none"}) :
         task' = [task EXCEPT ![p][wk[p][w].task].st = "done",
                              ![p][wk[p][w].task].darun = res]
    /\ wk' = [wk EXCEPT ![p][w] = [st |-> "idle", task |-> 0]]
    /\ UNCHANGED <<pools, sysexit_initial, sigint_initial, sys_exit, sigint_cur,
                   pool, stack, callers, web, device, device_infos, remote, proc, launcher, mres, g>>

(***************************************************************************)
(* Status reporting: config.web_status_notification_interval in whole      *)
(* seconds, the interpreter the process runs on (the code is written for   *)
(* Python 2 and 3 alike), a clock that counts half seconds, the time the   *)
(* LoopingCall is due next (0: not armed) and the times at which the       *)
(* requests still in flight were issued.                                   *)
(***************************************************************************)
NoWeb ==
    [interval |-> 1, py3 |-> TRUE, now |-> 0, started |-> 0, due |-> 0, inflight |-> {}]

\* The values of config.web_status_notification_interval, in seconds.
Intervals == 1..MaxInterval

\* The interval in half seconds.
Period(W) == 2 * W.interval

\* line 403: `interval / 2` in half seconds; `/` on two ints is floor
\* division on Python 2 and true division on Python 3.
Timeout(W) == IF W.py3 THEN W.interval ELSE 2 * (W.interval \div 2)

\* The time by which tornado gives up a request issued at time s; a timeout
\* of 0 arms no timer, the request then lasts as long as the server likes.
Expired(W, s) == Timeout(W) # 0 /\ W.now >= s + Timeout(W)

(***************************************************************************)
(* The Launcher object.                                                    *)
(***************************************************************************)
\* The characters of an address: white space, a host character, the colon.
Chars == {" ", "h", ":"}

AddrStrings == UNION {[1..n -> Chars] : n \in 0..MaxAddrLen}

RECURSIVE LStrip(_)
LStrip(s) == IF s # <<>> /\ Head(s) = " " THEN LStrip(Tail(s)) ELSE s

RECURSIVE RStrip(_)
RStrip(s) == IF s # <<>> /\ s[Len(s)] = " " THEN RStrip(SubSeq(s, 1, Len(s) - 1)) ELSE s

\* str.strip()
Strip(s) == RStrip(LStrip(s))

NoLauncher ==
    [made |-> FALSE, listen_address |-> <<>>, master_address |-> <<>>,
     matplotlib_backend |-> <<>>, stealth |-> FALSE, lock |-> 0,
     initialized |-> FALSE, running |-> FALSE, workflow |-> 0,
     agent |-> "None", plotters |-> FALSE, triggers |-> 0,
     notify_task |-> "none", ioloop_thread |-> "none", graphics |-> "none",
     reactor |-> "idle", slaves |-> <<>>, argv |-> <<"veles">>,
     graph |-> FALSE, wtask |-> 0, webagg_port |-> 0]

(***************************************************************************)
(* Strings are sequences of one-character strings.  A token of a command   *)
(* line is either an opaque word (s) or a text composed of characters (c). *)
(***************************************************************************)
Word(w) == [s |-> w, c |-> <<>>]
Text(c) == [s |-> "", c |-> c]

Digits == <<"0", "1", "2", "3", "4", "5", "6", "7", "8", "9">>

IsDigit(ch) == \E d \in 1..Len(Digits) : Digits[d] = ch

DigitVal(ch) == (CHOOSE d \in 1..Len(Digits) : Digits[d] = ch) - 1

\* what int() accepts of the strings the model builds: decimal digits
IsInt(s) == s # <<>> /\ \A i \in 1..Len(s) : IsDigit(s[i])

RECURSIVE ParseInt(_)
\* int(s) of a string of decimal digits
ParseInt(s) ==
    IF Len(s) = 1 THEN DigitVal(s[1])
    ELSE 10 * ParseInt(SubSeq(s, 1, Len(s) - 1)) + DigitVal(s[Len(s)])

RECURSIVE Fmt(_)
\* "%d" % n for n >= 0
Fmt(n) == IF n < 10 THEN <<Digits[n + 1]>> ELSE Fmt(n \div 10) \o <<Digits[(n % 10) + 1]>>

RECURSIVE SplitFrom(_, _, _)
\* str.split(sep) for a one-character separator: `cur` is the piece being read
SplitFrom(s, sep, cur) ==
    IF s = <<>> THEN <<cur>>
    ELSE IF Head(s) = sep THEN <<cur>> \o SplitFrom(Tail(s), sep, <<>>)
    ELSE SplitFrom(Tail(s), sep, Append(cur, Head(s)))

Split(s, sep) == SplitFrom(s, sep, <<>>)

RECURSIVE Slaves(_)
\* lines 98-99: the stripped, non-empty pieces of args.nodes.split(',')
Slaves(pieces) ==
    IF pieces = <<>> THEN <<>>
    ELSE (IF Strip(Head(pieces)) # <<>> THEN <<Strip(Head(pieces))>> ELSE <<>>)
         \o Slaves(Tail(pieces))

(***************************************************************************)
(* Launcher._launch_nodes: the slaves' command line and the expansion of   *)
(* the node entries host/platform:min[-max][xN].                           *)
(***************************************************************************)
\* line 322-324
ignored_args ==
    {"-l", "--listen-address", "-n", "--nodes", "-p", "--matplotlib-backend",
     "-b", "--background", "-s", "--stealth", "-d", "--device"}

RECURSIVE FilterFrom(_, _, _)
\* lines 325-331, from sys.argv[i - 1] on (sequences start at 1)
FilterFrom(argv, i, skip) ==
    IF i > Len(argv) THEN <<>>
    ELSE IF argv[i] \in ignored_args THEN FilterFrom(argv, i + 1, TRUE)
    ELSE IF ~skip THEN <<Word(argv[i])>> \o FilterFrom(argv, i + 1, FALSE)
    ELSE FilterFrom(argv, i + 1, FALSE)

\* lines 320-331: sys.argv[0] is not looked at
filtered_argv(argv) == FilterFrom(argv, 2, FALSE)

HasColon(s) == \E i \in 1..Len(s) : s[i] = ":"

\* str.index(':') counted from 1
IndexColon(s) == CHOOSE i \in 1..Len(s) : s[i] = ":" /\ \A j \in 1..(i - 1) : s[j] # ":"

\* socket.gethostname()
ThisHost == <<"m">>

\* lines 333-339: the address the slaves connect to
MasterAddress(la) ==
    LET host == SubSeq(la, 1, IndexColon(la) - 1)
        port == SubSeq(la, Len(host) + 2, Len(la))
    IN (IF host = <<>> THEN ThisHost ELSE host) \o <<":">> \o port

\* lines 332-341
slave_args(L) ==
    filtered_argv(L.argv) \o <<Word("-m"), Text(MasterAddress(L.listen_address)), Word("-b")>>

NoNode == [ok |-> FALSE, host |-> <<>>, oclpnum |-> 0, ocldevmin |-> 0,
           ocldevmax |-> 0, multiplier |-> 0]

\* lines 344-357: a ValueError (ok = FALSE) when a split does not give the
\* two pieces that are unpacked or int() is given something else than digits
ParseNode(node) ==
    LET parts == Split(node, "/")
    IN IF Len(parts) # 2 THEN NoNode
       ELSE LET marray == Split(parts[2], "x")
                pd == Split(marray[1], ":")
            IN IF Len(marray) > 1 /\ ~IsInt(marray[2]) THEN NoNode
               ELSE IF Len(pd) # 2 \/ ~IsInt(pd[1]) THEN NoNode
               ELSE LET ocldevarr == Split(pd[2], "-")
                    IN IF ~IsInt(ocldevarr[1]) THEN NoNode
                       ELSE IF Len(ocldevarr) > 1 /\ ~IsInt(ocldevarr[2]) THEN NoNode
                       ELSE [ok |-> TRUE, host |-> parts[1],
                             oclpnum |-> ParseInt(pd[1]),
                             ocldevmin |-> ParseInt(ocldevarr[1]),
                             ocldevmax |-> IF Len(ocldevarr) > 1
                                           THEN ParseInt(ocldevarr[2])
                                           ELSE ParseInt(ocldevarr[1]),
                             multiplier |-> IF Len(marray) > 1
                                            THEN ParseInt(marray[2]) ELSE 1]

\* line 361-363: the command launched for device d of a node
SlaveProgram(L, n, d) ==
    [host |-> n.host,
     prog |-> <<Word(L.argv[1])>> \o slave_args(L)
              \o <<Word("-d"), Text(Fmt(n.oclpnum) \o <<":">> \o Fmt(d))>>]

\* the loop over range(ocldevmin, ocldevmax)
DeviceLoopExclusive(L, n) ==
    [i \in 1..(n.ocldevmax - n.ocldevmin) |-> SlaveProgram(L, n, n.ocldevmin + i - 1)]

\* line 359-363: range(ocldevmin, ocldevmax + 1)
DeviceLoop(L, n) ==
    [i \in 1..(n.ocldevmax - n.ocldevmin + 1) |-> SlaveProgram(L, n, n.ocldevmin + i - 1)]

RECURSIVE MultiplierLoop(_, _, _)
\* line 358: range(0, multiplier)
MultiplierLoop(L, n, k) ==
    IF k >= n.multiplier THEN <<>> ELSE DeviceLoop(L, n) \o MultiplierLoop(L, n, k + 1)

RECURSIVE NodeLoop(_, _)
\* line 343: the programs _launch_nodes launches for the entries `nodes`, in
\* order, up to the entry (if any) that raises ValueError
NodeLoop(L, nodes) ==
    IF nodes = <<>> THEN [err |-> "none", launches |-> <<>>]
    ELSE LET n == ParseNode(Head(nodes))
         IN IF ~n.ok THEN [err |-> "ValueError", launches |-> <<>>]
            ELSE LET rest == NodeLoop(L, Tail(nodes))
                 IN [err |-> rest.err,
                     launches |-> MultiplierLoop(L, n, 0) \o rest.launches]

\* Launcher._launch_nodes
launch_nodes(L) ==
    IF L.slaves = <<>> THEN [err |-> "none", launches |-> <<>>]
    ELSE IF ~HasColon(L.listen_address) THEN [err |-> "ValueError", launches |-> <<>>]
    ELSE NodeLoop(L, L.slaves)

\* Launcher.__init__ (the process does not run in the background): the
\* addresses and the backend are stripped, args.nodes is cut at the commas.
NewLauncherNodes(t, la, ma, be, stealth, nodes, argv) ==
    /\ proc = "running" /\ t \in callers /\ Idle(t)
    /\ ~launcher.made
    /\ launcher' = [NoLauncher EXCEPT !.made = TRUE,
                                      !.listen_address = Strip(la),
                                      !.master_address = Strip(ma),
                                      !.matplotlib_backend = Strip(be),
                                      !.stealth = stealth,
                                      !.slaves = Slaves(Split(nodes, ",")),
                                      !.argv = argv]
    /\ UNCHANGED <<pools, sysexit_initial, sigint_initial, sys_exit, sigint_cur,
                   pool, wk, task, stack, callers, web, device, device_infos, remote, proc, mres, g>>

\* Launcher.__init__ of a process started as `veles` with no node to launch
NewLauncher(t, la, ma, be, stealth) ==
    NewLauncherNodes(t, la, ma, be, stealth, <<>>, <<"veles">>)

\* The properties of lines 139-171; a Python string is true when not empty.
is_master(L) == IF L.listen_address # <<>> THEN TRUE ELSE FALSE

is_slave(L) == IF L.master_address # <<>> THEN TRUE ELSE FALSE

is_standalone(L) == ~is_master(L) /\ ~is_slave(L)

\* mode refusing a launcher that has both addresses.
modeExclusive(L) ==
    IF is_master(L) /\ is_slave(L) THEN "RuntimeError"
    ELSE IF is_master(L) THEN "master"
    ELSE IF is_slave(L) THEN "slave"
    ELSE "standalone"

mode(L) ==
    IF is_master(L) THEN "master"
    ELSE IF is_slave(L) THEN "slave"
    ELSE IF is_standalone(L) THEN "standalone"
    ELSE "RuntimeError"

reports_web_status(L) == ~L.stealth /\ ~is_slave(L)

\* The program reads the four role properties of the launcher.
ReadMode(t) ==
    /\ proc = "running" /\ t \in callers /\ Idle(t)
    /\ launcher.made
    /\ mres' = [is_master |-> is_master(launcher), is_slave |-> is_slave(launcher),
                is_standalone |-> is_standalone(launcher), mode |-> mode(launcher)]
    /\ UNCHANGED <<pools, sysexit_initial, sigint_initial, sys_exit, sigint_cur,
                   pool, wk, task, stack, callers, web, device, device_infos, remote, proc, launcher, g>>

(***************************************************************************)
(* Remote launches.  Every launch is one SSH session; it is made to the    *)
(* end ("ok") or fails to connect, to authenticate or to execute.          *)
(***************************************************************************)
Outcomes == {"ok", "connect", "auth", "exec"}

\* The outcomes of the first launches of the process; later ones succeed.
OutcomePlans == [1..MaxFail -> Outcomes]

\* The plans that differ for a process that has made `done` launches.
PlansFrom(done) == {oc \in OutcomePlans : \A i \in 1..MaxFail : i <= done => oc[i] = "ok"}

OutcomeOf(oc, i) == IF i \in DOMAIN oc THEN oc[i] ELSE "ok"

\* Launcher._launch_remote_program with every exception let through.
launch_remote_programUncaught(log, l, outcome) ==
    [log |-> Append(log, [host |-> l.host, prog |-> l.prog, outcome |-> outcome]),
     raised |-> outcome # "ok"]

\* Launcher._launch_remote_program: whatever connect() or exec_command()
\* raises is caught and logged, the client is closed, the call returns.
launch_remote_program(log, l, outcome) ==
    [log |-> Append(log, [host |-> l.host, prog |-> l.prog, outcome |-> outcome]),
     raised |-> FALSE]

RECURSIVE LaunchAll(_, _, _)
\* The calls of _launch_remote_program for `launches`, in order, until one raises.
LaunchAll(log, launches, oc) ==
    IF launches = <<>> THEN [log |-> log, raised |-> FALSE]
    ELSE LET r == launch_remote_program(log, Head(launches), OutcomeOf(oc, Len(log) + 1))
         IN IF r.raised THEN r ELSE LaunchAll(r.log, Tail(launches), oc)

\* config.web_status_host and the program of lines 310-311
StatusProgram == [host |-> <<"w">>, prog |-> <<Word("web_status.py")>>]

\* Launcher._launch_status: `up` tells whether connect_ex() found the status
\* server listening.
launch_status(L, up) ==
    IF ~reports_web_status(L) \/ up THEN <<>> ELSE <<StatusProgram>>

\* Launcher.add_ref(workflow), under the launcher's lock.  Workflow w owns
\* pool w; `plotters` is workflow.plotters_are_enabled at the call, `up` the
\* state of the status server, `oc` the outcomes of the remote launches.
add_ref(t, w, plotters, up, oc) ==
    /\ proc = "running" /\ t \in callers /\ Idle(t)
    /\ launcher.made /\ launcher.lock = 0
    /\ pool[w].made
    /\ g.nregs < MaxCallbacks
    /\ pool' = [pool EXCEPT ![w].on_shutdowns = Append(@, "stop")]
    /\ LET L == launcher
           plots == plotters /\ ~(is_slave(L) \/ L.matplotlib_backend = <<>>)
           webst == ~is_slave(L) /\ reports_web_status(L)
           master == ~is_slave(L) /\ is_master(L)
           \* lines 201-207 and 210-213
           L1 == [L EXCEPT !.triggers = @ + 1,
                           !.workflow = w,
                           !.plotters = plots,
                           !.agent = IF is_slave(L) THEN "Client" ELSE @,
                           !.ioloop_thread = IF webst THEN "created" ELSE @,
                           !.notify_task = IF webst THEN "created" ELSE @]
           status == IF webst THEN launch_status(L, up) ELSE <<>>
       IN \* line 215
          \E st \in {LaunchAll(remote, status, oc)} :
            LET \* lines 216-222
                L2 == IF st.raised THEN L1
                      ELSE [L1 EXCEPT !.graphics = IF ~is_slave(L) /\ plots
                                                   THEN "launched" ELSE @,
                                      !.agent = IF master THEN "Server" ELSE @]
            IN \* line 224
               \E plan \in {IF master /\ ~st.raised THEN launch_nodes(L2)
                            ELSE [err |-> "none", launches |-> <<>>]} :
               \E nd \in {LaunchAll(st.log, plan.launches, oc)} :
                 LET err == IF st.raised \/ nd.raised THEN "launch failed" ELSE plan.err
                     \* line 225
                     L3 == IF err = "none" THEN [L2 EXCEPT !.initialized = TRUE] ELSE L2
                 IN /\ launcher' = L3
                    /\ remote' = nd.log
                    /\ g' = [g EXCEPT !.nregs = @ + 1,
                                      !.err = IF err # "none" THEN err ELSE @,
                                      !.refs = Append(@,
                                          [workflow |-> w, was |-> L.workflow, err |-> err,
                                           agent |-> L3.agent, agent0 |-> L.agent,
                                           mode |-> mode(L),
                                           initialized |-> L3.initialized,
                                           first |-> Len(remote) + 1,
                                           status |-> status # <<>>,
                                           nodes |-> Len(plan.launches),
                                           parsed |-> plan.err = "none"])]
    /\ UNCHANGED <<pools, sysexit_initial, sigint_initial, sys_exit, sigint_cur,
                   wk, task, stack, callers, web, device, device_infos, proc, mres>>

\* The program calls Launcher.stop().
stop(t) ==
    /\ proc = "running" /\ t \in callers /\ Idle(t)
    /\ launcher.made
    /\ Len(g.stops) < MaxStops
    /\ stack' = [stack EXCEPT ![t] = <<Frame("stop", "lock", 0, TRUE, FALSE)>>]
    /\ UNCHANGED <<pools, sysexit_initial, sigint_initial, sys_exit, sigint_cur,
                   pool, wk, task, callers, web, device, device_infos, remote, proc, launcher, mres, g>>

\* lines 34-37, @threadsafe: `with self._lock`; threading.Lock is not
\* reentrant, the thread waits until the lock is free.
StopLock(t) ==
    /\ At(t, "stop", "lock")
    /\ launcher.lock = 0
    /\ launcher' = [launcher EXCEPT !.lock = t]
    /\ stack' = Goto(t, [Top(t) EXCEPT !.pc = "body"])
    /\ UNCHANGED <<pools, sysexit_initial, sigint_initial, sys_exit, sigint_cur,
                   pool, wk, task, callers, web, device, device_infos, remote, proc, mres, g>>

(***************************************************************************)
(* Exceptions.  Nothing in ThreadPool catches; an exception that leaves a  *)
(* method unwinds the calling thread's stack, and the `with self._lock` of *)
(* a @threadsafe Launcher method releases the lock on the way out.         *)
(***************************************************************************)
\* A stop() that the program called itself has ended: its outcome is noted.
Noted(t, outcome) ==
    IF Depth(t) = 1 /\ stack[t][1].op = "stop"
    THEN [g EXCEPT !.stops = Append(@, [outcome |-> outcome,
                                        initialized |-> launcher'.initialized,
                                        running |-> launcher'.running])]
    ELSE g

\* An exception unwinds the stack of the thread; the reactor catches and logs
\* what a call it made raises and goes on with its loop.
InReactor(t) == Depth(t) > 1 /\ stack[t][1].op = "run" /\ stack[t][1].pc = "loop"

Unwound(t) == [stack EXCEPT ![t] = IF InReactor(t) THEN <<stack[t][1]>> ELSE <<>>]

LockAfterUnwind(t) == IF launcher.lock = t THEN [launcher EXCEPT !.lock = 0] ELSE launcher

Raise(t, what) ==
    /\ stack' = Unwound(t)
    /\ launcher' = LockAfterUnwind(t)
    /\ g' = [Noted(t, "raised") EXCEPT !.err = what]

(***************************************************************************)
(* ThreadPool.shutdown, statement by statement.                            *)
(***************************************************************************)
Enqueued(p) == {k \in TaskIds : task[p][k].st # "none"}

ShutdownFrame(p, er, force) ==
    [Frame("shutdown", "guard", p, er, force) EXCEPT !.t0 = Enqueued(p)]

\* shutdown(execute_remaining, force) called by a thread of the program
shutdown(t, p, er, force) ==
    /\ proc = "running" /\ t \in callers /\ Idle(t)
    /\ pool[p].made
    /\ stack' = [stack EXCEPT ![t] = <<ShutdownFrame(p, er, force)>>]
    /\ UNCHANGED <<pools, sysexit_initial, sigint_initial, sys_exit, sigint_cur,
                   pool, wk, task, callers, web, device, device_infos, remote, proc, launcher, mres, g>>

\* The guard of line 85 with the registry test forgotten.
ShutdownIsNoopFlagOnly(p) == pool[p].shutting_down

\* line 85: `self not in ThreadPool.pools or self.shutting_down`
ShutdownIsNoop(p) == ~Registered(p) \/ pool[p].shutting_down

\* lines 85-86: the early return
ShutdownGuard(t) ==
    /\ At(t, "shutdown", "guard")
    /\ LET f == Top(t)
       IN IF ShutdownIsNoop(f.p)
          THEN /\ stack' = Return(t)
               /\ g' = [g EXCEPT !.noops = @ \cup
                            {IF pool[f.p].shutting_down /\ Depth(t) > 1 THEN "nested"
                             ELSE IF pool[f.p].shutting_down THEN "shutting_down"
                             ELSE "unregistered"}]
          ELSE /\ stack' = Goto(t, [f EXCEPT !.pc = "set"])
               /\ UNCHANGED g
    /\ UNCHANGED <<pools, sysexit_initial, sigint_initial, sys_exit, sigint_cur,
                   pool, wk, task, callers, web, device, device_infos, remote, proc, launcher, mres>>

\* lines 87-88: the flag is raised and the number of callbacks is read
ShutdownSet(t) ==
    /\ At(t, "shutdown", "set")
    /\ LET f == Top(t)
       IN /\ pool' = [pool EXCEPT ![f.p].shutting_down = TRUE]
          /\ stack' = Goto(t, [f EXCEPT !.pc = "cb", !.i = 0,
                                        !.n = Len(pool[f.p].on_shutdowns)])
          /\ g' = [g EXCEPT !.cbLog[f.p] = <<>>,
                            !.cbs0[f.p] = pool[f.p].on_shutdowns,
                            !.shut[f.p] = @ + 1]
    /\ UNCHANGED <<pools, sysexit_initial, sigint_initial, sys_exit, sigint_cur,
                   wk, task, callers, web, device, device_infos, remote, proc, launcher, mres>>

\* The loop of line 90 stopping one callback early.
NextCallbackShort(f, lst) == IF f.i < Len(lst) /\ f.i < f.n - 1 THEN f.i + 1 ELSE 0

\* zip(self.on_shutdowns, range(sdl)): the index of the callback to run next,
\* 0 when the loop is over.
NextCallback(f, lst) == IF f.i < Len(lst) /\ f.i < f.n THEN f.i + 1 ELSE 0

\* lines 90-92: one callback is called
ShutdownCallback(t) ==
    /\ At(t, "shutdown", "cb")
    /\ LET f == Top(t)
           j == NextCallback(f, pool[f.p].on_shutdowns)
           cb == pool[f.p].on_shutdowns[j]
           nf == [f EXCEPT !.i = @ + 1]
       IN /\ j # 0
          /\ cb # Faulty
          /\ g' = [g EXCEPT !.cbLog[f.p] = Append(@, cb)]
          /\ CASE cb \in PlainCallbacks ->
                    /\ stack' = Goto(t, nf)
                    /\ UNCHANGED pool
               [] cb = "again" ->
                    /\ stack' = Call(t, nf, ShutdownFrame(f.p, TRUE, FALSE))
                    /\ UNCHANGED pool
               [] cb = "reg" ->
                    /\ stack' = Goto(t, nf)
                    /\ pool' = [pool EXCEPT ![f.p].on_shutdowns = Append(@, "C")]
               [] cb = "stop" ->
                    /\ stack' = Call(t, nf, Frame("stop", "lock", 0, TRUE, FALSE))
                    /\ UNCHANGED pool
    /\ UNCHANGED <<pools, sysexit_initial, sigint_initial, sys_exit, sigint_cur,
                   wk, task, callers, web, device, device_infos, remote, proc, launcher, mres>>

\* line 92: the callback raises; nothing in shutdown() catches
ShutdownCallbackRaises(t) ==
    /\ At(t, "shutdown", "cb")
    /\ LET f == Top(t)
           j == NextCallback(f, pool[f.p].on_shutdowns)
       IN /\ j # 0
          /\ pool[f.p].on_shutdowns[j] = Faulty
          /\ stack' = Unwound(t)
          /\ launcher' = LockAfterUnwind(t)
          /\ g' = [Noted(t, "raised") EXCEPT !.err = "callback raised",
                                             !.cbLog[f.p] = Append(@, Faulty)]
    /\ UNCHANGED <<pools, sysexit_initial, sigint_initial, sys_exit, sigint_cur,
                   pool, wk, task, callers, web, device, device_infos, remote, proc, mres>>

\* lines 94-98: the callbacks are dropped, the pool is marked joined, the
\* threads are copied and, to discard the queued tasks, q._put is replaced
ShutdownJoined(t) ==
    /\ At(t, "shutdown", "cb")
    /\ LET f == Top(t)
       IN /\ NextCallback(f, pool[f.p].on_shutdowns) = 0
          /\ pool' = [pool EXCEPT ![f.p].on_shutdowns = <<>>,
                                  ![f.p].joined = TRUE,
                                  ![f.p].putleft = @ \/ ~f.er]
          /\ stack' = Goto(t, [f EXCEPT !.pc = "stops", !.i = 0,
                                        !.lst = pool[f.p].threads])
    /\ UNCHANGED <<pools, sysexit_initial, sigint_initial, sys_exit, sigint_cur,
                   wk, task, callers, web, device, device_infos, remote, proc, launcher, mres, g>>

\* lines 99-101: one WorkerStop per worker; put() blocks while the queue is full
ShutdownStop(t) ==
    /\ At(t, "shutdown", "stops")
    /\ LET f == Top(t)
       IN IF pool[f.p].workers > 0
          THEN /\ ~Full(f.p)
               /\ pool' = [pool EXCEPT
                             ![f.p].q = PutItem(@, pool[f.p].putleft, WorkerStop),
                             ![f.p].workers = @ - 1]
               /\ stack' = Goto(t, [f EXCEPT !.i = @ + 1])
               /\ g' = IF g.stopSent[f.p] THEN g
                       ELSE [g EXCEPT !.stopSent[f.p] = TRUE,
                                      !.queued0[f.p] = SeqToSet(pool[f.p].q) \ {WorkerStop},
                                      !.undisp[f.p] =
                                          IF f.er THEN {}
                                          ELSE SeqToSet(pool[f.p].q) \ {WorkerStop}]
          ELSE /\ stack' = Goto(t, [f EXCEPT !.pc = "join", !.i = 0])
               /\ UNCHANGED <<pool, g>>
    /\ UNCHANGED <<pools, sysexit_initial, sigint_initial, sys_exit, sigint_cur,
                   wk, task, callers, web, device, device_infos, remote, proc, launcher, mres>>

\* Every join given a timeout, whatever `force` says.
JoinReturnsAlways(p, w, force) == TRUE

\* thread.join() returns when the thread has ended; thread.join(timeout)
\* also returns when the timeout has run out.
JoinReturns(p, w, force) == ~Alive(p, w) \/ force

\* lines 102-117: the copied threads are joined one after the other
ShutdownJoin(t) ==
    /\ At(t, "shutdown", "join")
    /\ LET f == Top(t)
       IN IF f.i < Len(f.lst)
          THEN /\ JoinReturns(f.p, f.lst[f.i + 1], f.force)
               /\ stack' = Goto(t, [f EXCEPT !.i = @ + 1])
               /\ g' = [g EXCEPT !.unjoined[f.p] =
                            @ \cup (IF Alive(f.p, f.lst[f.i + 1])
                                    THEN {f.lst[f.i + 1]} ELSE {})]
          ELSE /\ stack' = Goto(t, [f EXCEPT !.pc = "remove"])
               /\ UNCHANGED g
    /\ UNCHANGED <<pools, sysexit_initial, sigint_initial, sys_exit, sigint_cur,
                   pool, wk, task, callers, web, device, device_infos, remote, proc, launcher, mres>>

\* lines 118-120: the pool leaves the registry (list.remove raises ValueError
\* when the pool is not in it) and the flag is lowered
ShutdownRemove(t) ==
    /\ At(t, "shutdown", "remove")
    /\ LET f == Top(t)
       IN IF Registered(f.p)
          THEN /\ pools' = Remove(pools, f.p)
               /\ pool' = [pool EXCEPT ![f.p].shutting_down = FALSE]
               /\ stack' = Return(t)
               /\ UNCHANGED <<launcher, g>>
          ELSE /\ Raise(t, "ValueError")
               /\ UNCHANGED <<pools, pool>>
    /\ UNCHANGED <<sysexit_initial, sigint_initial, sys_exit, sigint_cur,
                   wk, task, callers, web, device, device_infos, remote, proc, mres>>

(***************************************************************************)
(* Launcher.stop and Launcher._on_stop, statement by statement.            *)
(***************************************************************************)
\* line 245 with the test left out
StopIsNoopNever(L) == FALSE

\* line 245
StopIsNoop(L) == ~L.initialized

\* lines 245-256: the body of stop()
StopBody(t) ==
    /\ At(t, "stop", "body")
    /\ IF StopIsNoop(launcher)
       THEN /\ launcher' = [launcher EXCEPT !.lock = 0]
            /\ stack' = Return(t)
            /\ g' = Noted(t, "returned")
       ELSE IF ~launcher.running
       THEN /\ stack' = Call(t, [Top(t) EXCEPT !.pc = "unlock"],
                             Frame("_on_stop", "flags", 0, TRUE, FALSE))
            /\ UNCHANGED <<launcher, g>>
       ELSE /\ launcher' = [launcher EXCEPT !.lock = 0,
                                !.reactor = IF @ = "running" THEN "stopping" ELSE @]
            /\ stack' = Return(t)
            /\ g' = Noted(t, "returned")
    /\ UNCHANGED <<pools, sysexit_initial, sigint_initial, sys_exit, sigint_cur,
                   pool, wk, task, callers, web, device, device_infos, remote, proc, mres>>

\* _on_stop() has returned to stop(): the lock is released, stop() returns
StopUnlock(t) ==
    /\ At(t, "stop", "unlock")
    /\ launcher' = [launcher EXCEPT !.lock = 0]
    /\ stack' = Return(t)
    /\ g' = Noted(t, "returned")
    /\ UNCHANGED <<pools, sysexit_initial, sigint_initial, sys_exit, sigint_cur,
                   pool, wk, task, callers, web, device, device_infos, remote, proc, mres>>

\* lines 278-279
OnStopFlags(t) ==
    /\ At(t, "_on_stop", "flags")
    /\ launcher' = [launcher EXCEPT !.initialized = FALSE, !.running = FALSE]
    /\ stack' = Goto(t, [Top(t) EXCEPT !.pc = "web"])
    /\ UNCHANGED <<pools, sysexit_initial, sigint_initial, sys_exit, sigint_cur,
                   pool, wk, task, callers, web, device, device_infos, remote, proc, mres, g>>

\* lines 281-284: LoopingCall.stop() asserts that the call is running and
\* Thread.join() raises RuntimeError on a thread that was never started;
\* the IOLoop that is stopped drops the requests it had in flight
OnStopWeb(t) ==
    /\ At(t, "_on_stop", "web")
    /\ IF ~reports_web_status(launcher)
       THEN /\ stack' = Goto(t, [Top(t) EXCEPT !.pc = "graphics"])
            /\ UNCHANGED <<launcher, g, web>>
       ELSE IF launcher.notify_task # "running"
       THEN Raise(t, "AssertionError") /\ UNCHANGED web
       ELSE IF launcher.ioloop_thread # "started"
       THEN Raise(t, "RuntimeError") /\ UNCHANGED web
       ELSE /\ launcher' = [launcher EXCEPT !.notify_task = "stopped",
                                            !.ioloop_thread = "joined"]
            /\ web' = [web EXCEPT !.due = 0, !.inflight = {}]
            /\ stack' = Goto(t, [Top(t) EXCEPT !.pc = "graphics"])
            /\ UNCHANGED g
    /\ UNCHANGED <<pools, sysexit_initial, sigint_initial, sys_exit, sigint_cur,
                   pool, wk, task, callers, device, device_infos, remote, proc, mres>>

\* line 288: the number of times the graphics server is asked to shut down
Attempts == 10

\* line 292 with the test left out
TerminatesAlways(L) == TRUE

\* line 292: self.graphics_client.poll() is None
Terminates(L) == L.graphics = "launched"

\* lines 286-296: while the graphics client is alive the graphics server is
\* asked to shut down, 10 times at most; a client that is still alive then
\* is terminated
OnStopGraphics(t) ==
    /\ At(t, "_on_stop", "graphics")
    /\ LET f == Top(t)
       IN IF ~launcher.plotters
          THEN /\ stack' = Goto(t, [f EXCEPT !.pc = "pool"])
               /\ UNCHANGED launcher
          ELSE IF launcher.graphics = "launched" /\ f.i < Attempts
          THEN /\ stack' = Goto(t, [f EXCEPT !.i = @ + 1])
               /\ UNCHANGED launcher
          ELSE /\ stack' = Goto(t, [f EXCEPT !.pc = "pool"])
               /\ launcher' = IF Terminates(launcher)
                              THEN [launcher EXCEPT !.graphics = "terminated"]
                              ELSE launcher
    /\ UNCHANGED <<pools, sysexit_initial, sigint_initial, sys_exit, sigint_cur,
                   pool, wk, task, callers, web, device, device_infos, remote, proc, mres, g>>

\* The graphics client process ends.
GraphicsExits ==
    /\ launcher.graphics = "launched"
    /\ launcher' = [launcher EXCEPT !.graphics = "exited"]
    /\ UNCHANGED <<pools, sysexit_initial, sigint_initial, sys_exit, sigint_cur,
                   pool, wk, task, stack, callers, web, device, device_infos, remote,
                   proc, mres, g>>

\* lines 377-379: the graphics server has found the port of WebAgg and calls
\* the callback add_ref gave it (line 220)
set_webagg_port(port) ==
    /\ launcher.graphics = "launched"
    /\ launcher.webagg_port = 0
    /\ launcher' = [launcher EXCEPT !.webagg_port = port]
    /\ UNCHANGED <<pools, sysexit_initial, sigint_initial, sys_exit, sigint_cur,
                   pool, wk, task, stack, callers, web, device, device_infos, remote,
                   proc, mres, g>>

\* line 297: self.workflow.thread_pool.shutdown()
OnStopPool(t) ==
    /\ At(t, "_on_stop", "pool")
    /\ stack' = Call(t, [Top(t) EXCEPT !.pc = "ret"],
                     ShutdownFrame(launcher.workflow, TRUE, FALSE))
    /\ UNCHANGED <<pools, sysexit_initial, sigint_initial, sys_exit, sigint_cur,
                   pool, wk, task, callers, web, device, device_infos, remote, proc, launcher, mres, g>>

\* the pool's shutdown() has returned: so does _on_stop()
OnStopReturn(t) ==
    /\ At(t, "_on_stop", "ret")
    /\ stack' = Return(t)
    /\ UNCHANGED <<pools, sysexit_initial, sigint_initial, sys_exit, sigint_cur,
                   pool, wk, task, callers, web, device, device_infos, remote, proc, launcher, mres, g>>

(***************************************************************************)
(* Launcher.run and Launcher._pre_run, statement by statement, and the     *)
(* reactor that run() starts on the calling thread.                        *)
(***************************************************************************)
\* The program calls Launcher.run().
run(t) ==
    /\ proc = "running" /\ t \in callers /\ Idle(t)
    /\ launcher.made
    /\ Len(g.runs) < MaxRuns
    /\ stack' = [stack EXCEPT ![t] = <<Frame("run", "lock", 0, TRUE, FALSE)>>]
    /\ UNCHANGED <<pools, sysexit_initial, sigint_initial, sys_exit, sigint_cur,
                   pool, wk, task, callers, web, device, device_infos, remote, proc, launcher, mres, g>>

\* line 258, @threadsafe: _pre_run() waits for the lock
PreRunLock(t) ==
    /\ At(t, "run", "lock")
    /\ launcher.lock = 0
    /\ launcher' = [launcher EXCEPT !.lock = t]
    /\ stack' = Goto(t, [Top(t) EXCEPT !.pc = "body"])
    /\ UNCHANGED <<pools, sysexit_initial, sigint_initial, sys_exit, sigint_cur,
                   pool, wk, task, callers, web, device, device_infos, remote, proc, mres, g>>

\* line 260 with the test left out
RunRefusedNever(L) == FALSE

\* line 260
RunRefused(L) == ~L.initialized

\* deferToThreadPool -> callInThreadWithCallback: nothing once the pool is
\* joined, otherwise the call is put on the queue and workers are started
Submitted(p, forever) ==
    LET k == NextTask(p)
        pl == [pool[p] EXCEPT !.q = PutItem(@, pool[p].putleft, k)]
        st == StartWorkers(pl, wk[p], Min(pl.maxthreads, Len(pl.q) + Working(p)))
    IN [pool |-> [pool EXCEPT ![p] = st[1]],
        wk |-> [wk EXCEPT ![p] = st[2]],
        task |-> [task EXCEPT ![p][k] = [st |-> "queued", forever |-> forever,
                                         darun |-> "pending"]],
        k |-> k]

\* lines 260-275: the body of _pre_run(); the lock is released on the way out
PreRunBody(t) ==
    /\ At(t, "run", "body")
    /\ LET L == launcher
           webst == reports_web_status(L)
           L1 == [L EXCEPT !.running = TRUE, !.lock = 0]
           L2 == [L1 EXCEPT !.graph = TRUE]
           L3 == [L2 EXCEPT !.ioloop_thread = IF webst THEN "started" ELSE @,
                            !.notify_task = IF webst THEN "running" ELSE @]
           refused == [g EXCEPT !.err = "Launcher was not initialized",
                                !.runs = Append(@, "not initialized")]
           failed(what) == [g EXCEPT !.err = what, !.runs = Append(@, "raised")]
           \* lines 269-270: start(interval, now=False)
           armed == IF webst THEN [web EXCEPT !.started = web.now,
                                              !.due = web.now + Period(web)]
                    ELSE web
       IN IF RunRefused(L)
          THEN /\ launcher' = [L EXCEPT !.lock = 0]
               /\ stack' = Unwound(t)
               /\ g' = refused
               /\ UNCHANGED <<pool, wk, task, web>>
          ELSE IF ~is_slave(L) /\ L.workflow = 0
          THEN \* self.workflow is None
               /\ launcher' = L1
               /\ stack' = Unwound(t)
               /\ g' = failed("AttributeError")
               /\ UNCHANGED <<pool, wk, task, web>>
          ELSE IF webst /\ L.ioloop_thread # "created"
          THEN \* threads can only be started once
               /\ launcher' = L2
               /\ stack' = Unwound(t)
               /\ g' = failed("RuntimeError")
               /\ UNCHANGED <<pool, wk, task, web>>
          ELSE IF ~is_standalone(L) \/ pool[L.workflow].joined
          THEN /\ launcher' = L3
               /\ web' = armed
               /\ stack' = Goto(t, [Top(t) EXCEPT !.pc = "reactor"])
               /\ UNCHANGED <<pool, wk, task, g>>
          ELSE /\ ~Full(L.workflow)
               /\ \E k \in TaskIds : task[L.workflow][k].st = "none"
               /\ \E forever \in BOOLEAN :
                  \E sub \in {Submitted(L.workflow, forever)} :
                    /\ pool' = sub.pool
                    /\ wk' = sub.wk
                    /\ task' = sub.task
                    /\ launcher' = [L3 EXCEPT !.wtask = sub.k]
               /\ web' = armed
               /\ stack' = Goto(t, [Top(t) EXCEPT !.pc = "reactor"])
               /\ UNCHANGED g
    /\ UNCHANGED <<pools, sysexit_initial, sigint_initial, sys_exit, sigint_cur,
                   callers, device, device_infos, remote, proc, mres>>

\* line 234: reactor.run() starts the event loop on the calling thread
ReactorRun(t) ==
    /\ At(t, "run", "reactor")
    /\ launcher' = [launcher EXCEPT !.reactor = "running"]
    /\ stack' = Goto(t, [Top(t) EXCEPT !.pc = "loop"])
    /\ UNCHANGED <<pools, sysexit_initial, sigint_initial, sys_exit, sigint_cur,
                   pool, wk, task, callers, web, device, device_infos, remote, proc, mres, g>>

\* A call scheduled on the reactor calls Launcher.stop().
ReactorCallsStop(t) ==
    /\ At(t, "run", "loop")
    /\ launcher.reactor = "running"
    /\ stack' = Call(t, Top(t), Frame("stop", "lock", 0, TRUE, FALSE))
    /\ UNCHANGED <<pools, sysexit_initial, sigint_initial, sys_exit, sigint_cur,
                   pool, wk, task, callers, web, device, device_infos, remote, proc, launcher, mres, g>>

\* line 275: the reactor runs the callback of darun with the value that
\* workflow.run returned as its one argument, execute_remaining.  A failure
\* goes down the errback chain, which is empty.
DarunCallback(t) ==
    /\ At(t, "run", "loop")
    /\ \/ launcher.reactor = "running"
       \/ launcher.reactor = "stopping" /\ Top(t).i = 0
    /\ \E p \in PoolIds, k \in TaskIds :
         /\ task[p][k].darun \in {"True", "None"}
         /\ task' = [task EXCEPT ![p][k].darun = "called"]
         /\ stack' = Call(t, Top(t), ShutdownFrame(p, task[p][k].darun = "True", FALSE))
    /\ UNCHANGED <<pools, sysexit_initial, sigint_initial, sys_exit, sigint_cur,
                   pool, wk, callers, web, device, device_infos, remote, proc, launcher, mres, g>>

\* The LoopingCall is due: the reactor calls _notify_status() (lines 388-413),
\* which hands one request to the HTTP client, and the call is scheduled
\* again for the next multiple of the interval after its start.
NotifyStatus(t) ==
    /\ At(t, "run", "loop")
    /\ launcher.reactor = "running"
    /\ web.due # 0 /\ web.now >= web.due
    /\ web' = [web EXCEPT !.inflight = @ \cup {web.now},
                          !.due = @ + Period(web) * ((web.now - @) \div Period(web) + 1)]
    /\ g' = [g EXCEPT !.ticks = Append(@, [at |-> web.now, started |-> web.started,
                                           others |-> web.inflight])]
    /\ UNCHANGED <<pools, sysexit_initial, sigint_initial, sys_exit, sigint_cur,
                   pool, wk, task, stack, callers, device, device_infos, remote, proc,
                   launcher, mres>>

\* A request ends: the answer came, or the connection failed, or the timeout
\* of line 403 ran out; _handle_notify_request (lines 381-386) logs it.
RequestEnds(s) ==
    /\ s \in web.inflight
    /\ web' = [web EXCEPT !.inflight = @ \ {s}]
    /\ UNCHANGED <<pools, sysexit_initial, sigint_initial, sys_exit, sigint_cur,
                   pool, wk, task, stack, callers, device, device_infos, remote, proc,
                   launcher, mres, g>>

\* Half a second passes.  A reactor that sits in its loop makes a call that
\* is due before time goes on, and so does the IOLoop with a timeout.
TimePasses ==
    /\ web.now < MaxClock
    /\ ~(/\ web.due # 0 /\ web.now >= web.due
         /\ launcher.reactor = "running"
         /\ \E t \in CallerIds : At(t, "run", "loop"))
    /\ \A s \in web.inflight : ~Expired(web, s)
    /\ web' = [web EXCEPT !.now = @ + 1]
    /\ UNCHANGED <<pools, sysexit_initial, sigint_initial, sys_exit, sigint_cur,
                   pool, wk, task, stack, callers, device, device_infos, remote, proc,
                   launcher, mres, g>>

\* reactor.stop() was called: the reactor fires the 'before shutdown' triggers
\* add_ref registered (line 202), one call of _on_stop() each, and leaves
\* its loop; reactor.run() returns.
ReactorShutdown(t) ==
    /\ At(t, "run", "loop")
    /\ launcher.reactor = "stopping"
    /\ IF Top(t).i < launcher.triggers
       THEN /\ stack' = Call(t, [Top(t) EXCEPT !.i = @ + 1],
                             Frame("_on_stop", "flags", 0, TRUE, FALSE))
            /\ UNCHANGED launcher
       ELSE /\ stack' = Goto(t, [Top(t) EXCEPT !.pc = "finally"])
            /\ launcher' = [launcher EXCEPT !.reactor = "stopped"]
    /\ UNCHANGED <<pools, sysexit_initial, sigint_initial, sys_exit, sigint_cur,
                   pool, wk, task, callers, web, device, device_infos, remote, proc, mres, g>>

\* lines 235-238: reactor.run() raises, the exception is logged
ReactorFault(t) ==
    /\ At(t, "run", "loop")
    /\ launcher.reactor = "running"
    /\ launcher' = [launcher EXCEPT !.reactor = "crashed"]
    /\ stack' = Goto(t, [Top(t) EXCEPT !.pc = "finally"])
    /\ UNCHANGED <<pools, sysexit_initial, sigint_initial, sys_exit, sigint_cur,
                   pool, wk, task, callers, web, device, device_infos, remote, proc, mres, g>>

\* the finally clause without its assignment
ClearRunningSkipped(L) == L

\* line 241
ClearRunning(L) == [L EXCEPT !.running = FALSE]

\* lines 239-241: with self._lock: self._running = False; run() returns
RunFinally(t) ==
    /\ At(t, "run", "finally")
    /\ launcher.lock = 0
    /\ launcher' = ClearRunning(launcher)
    /\ stack' = Return(t)
    /\ g' = [g EXCEPT !.runs = Append(@, "returned")]
    /\ UNCHANGED <<pools, sysexit_initial, sigint_initial, sys_exit, sigint_cur,
                   pool, wk, task, callers, web, device, device_infos, remote, proc, mres>>

(***************************************************************************)
(* ThreadPool.shutdown_pools, ThreadPool.exit, ThreadPool.sigint_handler.  *)
(***************************************************************************)
\* line 127: the registry is copied
ShutdownPoolsCopy(t) ==
    /\ At(t, "shutdown_pools", "copy")
    /\ stack' = Goto(t, [Top(t) EXCEPT !.pc = "loop", !.i = 0, !.lst = pools])
    /\ UNCHANGED <<pools, sysexit_initial, sigint_initial, sys_exit, sigint_cur,
                   pool, wk, task, callers, web, device, device_infos, remote, proc, launcher, mres, g>>

\* lines 128-129: every pool of the copy is shut down with the given policy
ShutdownPoolsLoop(t) ==
    /\ At(t, "shutdown_pools", "loop")
    /\ LET f == Top(t)
       IN IF f.i < Len(f.lst)
          THEN stack' = Call(t, [f EXCEPT !.i = @ + 1],
                             ShutdownFrame(f.lst[f.i + 1], f.er, f.force))
          ELSE stack' = Return(t)
    /\ UNCHANGED <<pools, sysexit_initial, sigint_initial, sys_exit, sigint_cur,
                   pool, wk, task, callers, web, device, device_infos, remote, proc, launcher, mres, g>>

\* The program calls sys.exit(): the wrapper ThreadPool.exit when one is
\* installed, else the interpreter's own sys.exit.
SysExit(t) ==
    /\ proc = "running" /\ t \in callers /\ Idle(t)
    /\ sys_exit = "wrapper"
    /\ stack' = [stack EXCEPT ![t] = <<Frame("exit", "pools", 0, TRUE, FALSE)>>]
    /\ g' = [g EXCEPT !.exitPools = SeqToSet(pools), !.exitCalls = 0,
                      !.exitClean = \A p \in PoolIds : ~pool[p].shutting_down]
    /\ UNCHANGED <<pools, sysexit_initial, sigint_initial, sys_exit, sigint_cur,
                   pool, wk, task, callers, web, device, device_infos, remote, proc, launcher, mres>>

\* line 136: ThreadPool.shutdown_pools() with the default policy
ExitPools(t) ==
    /\ At(t, "exit", "pools")
    /\ stack' = Call(t, [Top(t) EXCEPT !.pc = "restore"],
                     Frame("shutdown_pools", "copy", 0, TRUE, FALSE))
    /\ UNCHANGED <<pools, sysexit_initial, sigint_initial, sys_exit, sigint_cur,
                   pool, wk, task, callers, web, device, device_infos, remote, proc, launcher, mres, g>>

\* line 137: sys.exit = ThreadPool.sysexit_initial
ExitRestore(t) ==
    /\ At(t, "exit", "restore")
    /\ sys_exit' = sysexit_initial
    /\ stack' = Goto(t, [Top(t) EXCEPT !.pc = "call"])
    /\ UNCHANGED <<pools, sysexit_initial, sigint_initial, sigint_cur,
                   pool, wk, task, callers, web, device, device_infos, remote, proc, launcher, mres, g>>

\* The number of frames of method op on the stack of t.
Nesting(t, op) == Cardinality({i \in 1..Len(stack[t]) : stack[t][i].op = op})

\* line 138: sys.exit(retcode).  The interpreter's sys.exit ends the process;
\* the wrapper is ThreadPool.exit again, and the interpreter ends an endless
\* recursion with a RecursionError.
ExitCall(t) ==
    /\ At(t, "exit", "call")
    /\ IF sys_exit = "orig"
       THEN /\ proc' = "exited"
            /\ stack' = Unwound(t)
            /\ launcher' = LockAfterUnwind(t)
            /\ g' = [g EXCEPT !.exitCalls = @ + 1, !.err = "SystemExit",
                              !.exitLeft = g.exitPools \cap SeqToSet(pools)]
       ELSE /\ IF Nesting(t, "exit") < MaxDepth
               THEN /\ stack' = Call(t, [Top(t) EXCEPT !.pc = "ret"],
                                     Frame("exit", "pools", 0, TRUE, FALSE))
                    /\ UNCHANGED <<launcher, g>>
               ELSE Raise(t, "recursion limit in exit")
            /\ UNCHANGED proc
    /\ UNCHANGED <<pools, sysexit_initial, sigint_initial, sys_exit, sigint_cur,
                   pool, wk, task, callers, web, device, device_infos, remote, mres>>

\* SIGINT arrives: the interpreter runs the installed handler on the main
\* thread, on top of whatever the main thread is doing.
Sigint ==
    /\ proc = "running"
    /\ sigint_cur = "wrapper"
    /\ g.nsig < MaxSignals
    /\ stack' = [stack EXCEPT ![MainThread] =
                     Append(@, Frame("sigint", "pools", 0, FALSE, TRUE))]
    /\ g' = [g EXCEPT !.nsig = @ + 1, !.sigPools = SeqToSet(pools),
                      !.sigCalls = 0, !.sigLeft = {},
                      !.sigClean = \A p \in PoolIds : ~pool[p].shutting_down]
    /\ UNCHANGED <<pools, sysexit_initial, sigint_initial, sys_exit, sigint_cur,
                   pool, wk, task, callers, web, device, device_infos, remote, proc, launcher, mres>>

\* line 145: ThreadPool.shutdown_pools(execute_remaining=False, force=True)
SigintPools(t) ==
    /\ At(t, "sigint", "pools")
    /\ stack' = Call(t, [Top(t) EXCEPT !.pc = "chain"],
                     Frame("shutdown_pools", "copy", 0, FALSE, TRUE))
    /\ UNCHANGED <<pools, sysexit_initial, sigint_initial, sys_exit, sigint_cur,
                   pool, wk, task, callers, web, device, device_infos, remote, proc, launcher, mres, g>>

\* line 146: ThreadPool.sigint_initial(signal, frame).  The handler that was
\* installed before returns or raises (the interpreter's default handler
\* raises KeyboardInterrupt); the wrapper is ThreadPool.sigint_handler again.
SigintChain(t) ==
    /\ At(t, "sigint", "chain")
    /\ IF sigint_initial = "orig"
       THEN \E raises \in BOOLEAN :
              /\ stack' = IF raises THEN Unwound(t) ELSE Return(t)
              /\ launcher' = IF raises THEN LockAfterUnwind(t) ELSE launcher
              /\ g' = [g EXCEPT !.sigCalls = @ + 1,
                                !.sigLeft = g.sigPools \cap SeqToSet(pools),
                                !.err = IF raises THEN "KeyboardInterrupt" ELSE @]
       ELSE IF Nesting(t, "sigint") < MaxDepth
            THEN /\ stack' = Call(t, [Top(t) EXCEPT !.pc = "ret"],
                                  Frame("sigint", "pools", 0, FALSE, TRUE))
                 /\ UNCHANGED <<launcher, g>>
            ELSE Raise(t, "recursion limit in sigint_handler")
    /\ UNCHANGED <<pools, sysexit_initial, sigint_initial, sys_exit, sigint_cur,
                   pool, wk, task, callers, web, device, device_infos, remote, proc, mres>>

(***************************************************************************)
(* The OpenCL device and the cache of device ratings (src/veles/opencl.py).*)
(* Times are whole numbers of time units; a rating, the quotient of two    *)
(* times, is kept as the pair of its numerator and denominator.            *)
(***************************************************************************)
\* opencl_types.dtypes.keys()
DTypes == {"double"}

\* The descriptions vendor/name/id of the devices of the hosts.
Descs == {"A", "B"}

\* DeviceInfo.__init__: the time of a device that was never measured
Never == 86400

\* DeviceInfo.__init__: BLOCK_SIZE before any measure
DefaultBlock == 8

\* _do_tests: for BLOCK_SIZE in range(32, 3, -1)
FirstBlock == 32
LastBlock == 4

Times == 1..MaxTime

RECURSIVE GCD(_, _)
GCD(a, b) == IF b = 0 THEN a ELSE GCD(b, a % b)

\* the quotient n / d, in lowest terms
Ratio(n, d) == [n |-> n \div GCD(n, d), d |-> d \div GCD(n, d)]

\* DeviceInfo.__init__
DeviceInfo ==
    [present |-> TRUE,
     rating |-> [t \in DTypes |-> Ratio(0, 1)],
     dt |-> [t \in DTypes |-> Never],
     min_dt |-> [t \in DTypes |-> Never],
     BLOCK_SIZE |-> [t \in DTypes |-> DefaultBlock]]

\* a description the map has no entry for
NoInfo == [DeviceInfo EXCEPT !.present = FALSE]

\* no cache file
NoCache == [exists |-> FALSE, map |-> [d \in Descs |-> NoInfo]]

NoDevice ==
    [made |-> FALSE, desc |-> "A", device_info |-> NoInfo, known |-> FALSE,
     test_known |-> FALSE, test_unknown |-> FALSE, tested |-> FALSE,
     saved |-> FALSE, cached |-> NoInfo, dt_numpy |-> [t \in DTypes |-> Never]]

\* The kernels are measured for two bands of block sizes: a plan gives the
\* time measured in each band, 0 when the build or the run raises RuntimeError.
Failed == 0

Band(b) == IF b > 16 THEN 1 ELSE 2

Plans == [1..2 -> Times \cup {Failed}]

\* The test of line 201 letting a tie replace the record.
FasterOrEqual(dt, best) == dt <= best

\* line 201: `if dt < self.device_info.dt[dtype]`
Faster(dt, best) == dt < best

RECURSIVE Sweep(_, _, _)
\* lines 181-221 for one dtype: the best time and block size of the device
\* and the running minimum, from block size b down to LastBlock
Sweep(b, plan, acc) ==
    IF b < LastBlock THEN acc
    ELSE LET dt == plan[Band(b)]
         IN IF dt = Failed THEN Sweep(b - 1, plan, acc)
            ELSE Sweep(b - 1, plan,
                       [dt |-> IF Faster(dt, acc.dt) THEN dt ELSE acc.dt,
                        BLOCK_SIZE |-> IF Faster(dt, acc.dt) THEN b ELSE acc.BLOCK_SIZE,
                        min_dt |-> IF dt < acc.min_dt THEN dt ELSE acc.min_dt])

RECURSIVE SweepTypes(_, _, _)
\* lines 179-221 for the dtypes of S: the map from each dtype to its sweep,
\* which starts from dt 86400 and from the minimum m[t] known by then
SweepTypes(S, plan, m) ==
    LET t == CHOOSE x \in S : TRUE
        r == t :> Sweep(FirstBlock, plan[t],
                        [dt |-> Never, BLOCK_SIZE |-> DefaultBlock, min_dt |-> m[t]])
    IN IF S = {t} THEN r ELSE r @@ SweepTypes(S \ {t}, plan, m)

\* Device._do_tests: `infos` is the map with the entry of the device in it,
\* `first` the entry that device_infos.values() yields first, `cpu` the time
\* of the numpy reference and `plan` the times of the kernels.
do_tests(infos, desc, first, cpu, plan) ==
    LET \* lines 168-176
        min0 == [t \in DTypes |-> infos[first].min_dt[t]]
        \* lines 189-194: the reference runs once, before the first kernel
        dt_numpy == [t \in DTypes |-> IF cpu[t] < Never THEN cpu[t] ELSE Never]
        min1 == [t \in DTypes |-> IF dt_numpy[t] < min0[t] THEN dt_numpy[t] ELSE min0[t]]
        \* lines 179-221
        res == SweepTypes(DTypes, plan, min1)
        own == [infos[desc] EXCEPT !.dt = [t \in DTypes |-> res[t].dt],
                                   !.BLOCK_SIZE = [t \in DTypes |-> res[t].BLOCK_SIZE]]
        measured == [infos EXCEPT ![desc] = own]
    IN \* lines 228-243
       [d \in Descs |->
          IF ~measured[d].present THEN measured[d]
          ELSE [measured[d] EXCEPT
                  !.rating = [t \in DTypes |-> Ratio(res[t].min_dt, measured[d].dt[t])],
                  !.min_dt = [t \in DTypes |-> res[t].min_dt]]]

\* line 138-139, the test that lets a cached entry be adopted
AdoptsCached(test_known, known) == ~test_known /\ known

\* lines 138-147: whether _fill_device_info_performance_values goes on to
\* the tests
RunsTests(test_known, test_unknown, known) ==
    ~AdoptsCached(test_known, known) /\ test_unknown

\* Device.__init__ on the device `desc` with config.test_known_device and
\* config.test_unknown_device as given: the cache file is loaded (an empty
\* map when it is missing), the entry of the device is adopted or the device
\* is tested and the map saved.
NewDevice(desc, test_known, test_unknown, first, cpu, plan) ==
    /\ proc = "running"
    /\ g.ndev < MaxPasses
    /\ LET loaded == device_infos.map
           known == loaded[desc].present
           fresh == DeviceInfo
       IN IF AdoptsCached(test_known, known)
          THEN /\ device' = [made |-> TRUE, desc |-> desc,
                             device_info |-> [fresh EXCEPT
                                 !.rating = loaded[desc].rating,
                                 !.BLOCK_SIZE = loaded[desc].BLOCK_SIZE,
                                 !.dt = loaded[desc].dt,
                                 !.min_dt = loaded[desc].min_dt],
                             known |-> known, test_known |-> test_known,
                             test_unknown |-> test_unknown, tested |-> FALSE,
                             saved |-> FALSE, cached |-> loaded[desc],
                             dt_numpy |-> [t \in DTypes |-> Never]]
               /\ UNCHANGED device_infos
          ELSE IF ~test_unknown
          THEN /\ device' = [made |-> TRUE, desc |-> desc, device_info |-> fresh,
                             known |-> known, test_known |-> test_known,
                             test_unknown |-> test_unknown, tested |-> FALSE,
                             saved |-> FALSE, cached |-> loaded[desc],
                             dt_numpy |-> [t \in DTypes |-> Never]]
               /\ UNCHANGED device_infos
          ELSE /\ first = desc \/ loaded[first].present
               /\ \E infos \in {do_tests([loaded EXCEPT ![desc] = fresh],
                                         desc, first, cpu, plan)} :
                    /\ device' = [made |-> TRUE, desc |-> desc,
                                  device_info |-> infos[desc],
                                  known |-> known, test_known |-> test_known,
                                  test_unknown |-> test_unknown, tested |-> TRUE,
                                  saved |-> TRUE, cached |-> loaded[desc],
                                  dt_numpy |-> cpu]
                    /\ device_infos' = [exists |-> TRUE, map |-> infos]
    /\ g' = [g EXCEPT !.ndev = @ + 1,
                      !.plan = IF RunsTests(test_known, test_unknown,
                                            device_infos.map[desc].present)
                               THEN plan ELSE @]
    /\ UNCHANGED <<pools, sysexit_initial, sigint_initial, sys_exit, sigint_cur,
                   pool, wk, task, stack, callers, web, remote, proc, launcher, mres>>

\* Somebody removes the cache file.
RemoveCache ==
    /\ device_infos.exists
    /\ device_infos' = NoCache
    /\ UNCHANGED <<pools, sysexit_initial, sigint_initial, sys_exit, sigint_cur,
                   pool, wk, task, stack, callers, web, device, remote, proc, launcher,
                   mres, g>>

(***************************************************************************)
(* The pool alone: one calling thread, its pools, their workers, SIGINT.   *)
(***************************************************************************)

G0 ==
    [installs |-> 0, ntasks |-> 0, nregs |-> 0, nsig |-> 0, err |-> "none",
     noops |-> {}, stops |-> <<>>, refs |-> <<>>, runs |-> <<>>, ndev |-> 0,
     cbs0 |-> [p \in PoolIds |-> <<>>],
     queued0 |-> [p \in PoolIds |-> {}],
     cbLog |-> [p \in PoolIds |-> <<>>],
     shut |-> [p \in PoolIds |-> 0],
     ticks |-> <<>>,
     plan |-> [t \in DTypes |-> [i \in 1..2 |-> Failed]],
     stopSent |-> [p \in PoolIds |-> FALSE],
     undisp |-> [p \in PoolIds |-> {}],
     late |-> [p \in PoolIds |-> {}],
     unjoined |-> [p \in PoolIds |-> {}],
     exitPools |-> {}, exitCalls |-> 0, exitLeft |-> {}, exitClean |-> TRUE,
     sigPools |-> {}, sigCalls |-> 0, sigLeft |-> {}, sigClean |-> TRUE]

InitProcess ==
    /\ pools = <<>>
    /\ sysexit_initial = "None"
    /\ sigint_initial = "None"
    /\ sys_exit = "orig"
    /\ sigint_cur = "orig"
    /\ pool = [p \in PoolIds |-> NoPool]
    /\ wk = [p \in PoolIds |-> [w \in WorkerIds |-> NoWorker]]
    /\ task = [p \in PoolIds |-> [k \in TaskIds |-> NoTask]]
    /\ stack = [t \in CallerIds |-> <<>>]
    /\ callers = {MainThread}
    /\ device = NoDevice
    /\ device_infos = NoCache
    /\ remote = <<>>
    /\ proc = "running"
    /\ launcher = NoLauncher
    /\ mres = [is_master |-> FALSE, is_slave |-> FALSE, is_standalone |-> FALSE, mode |-> "none"]
    /\ g = G0

InitPool == InitProcess /\ web = NoWeb

\* The interval is what the configuration says and the interpreter is the one
\* that was started.
InitNotify ==
    /\ InitProcess
    /\ \E i \in Intervals, py3 \in BOOLEAN :
         web = [NoWeb EXCEPT !.interval = i, !.py3 = py3]

NoPoolYet == \A p \in PoolIds : ~pool[p].made

\* The statements of shutdown() but the call of a callback.
ShutdownStep(t) ==
    \/ ShutdownGuard(t)
    \/ ShutdownSet(t)
    \/ ShutdownJoined(t)
    \/ ShutdownStop(t)
    \/ ShutdownJoin(t)
    \/ ShutdownRemove(t)

\* One pool, its tasks and its workers: the calling thread hands tasks to the
\* pool and shuts it down while the workers run.
NextWork ==
    \/ \E t \in CallerIds, mx \in 1..MaxWorkers, qs \in 1..MaxQueue :
         \E mn \in 0..mx : NoPoolYet /\ NewPool(t, mn, mx, qs)
    \/ \E t \in CallerIds, p \in PoolIds, forever \in BOOLEAN : request(t, p, forever)
    \/ \E t \in CallerIds, p \in PoolIds, er \in BOOLEAN, force \in BOOLEAN :
         shutdown(t, p, er, force)
    \/ \E t \in CallerIds : ShutdownStep(t)
    \/ \E p \in PoolIds, w \in WorkerIds : WorkerGet(p, w)
    \/ \E p \in PoolIds, w \in WorkerIds : WorkerDone(p, w)

SpecWork == InitPool /\ [][NextWork]_vars

\* One pool and its shutdown callbacks.
NextCallbacks ==
    \/ \E t \in CallerIds, mx \in 1..MaxWorkers, qs \in {MaxQueue} :
         \E mn \in 0..mx : NoPoolYet /\ NewPool(t, mn, mx, qs)
    \/ \E t \in CallerIds, p \in PoolIds, cb \in PoolCallbacks : register_on_shutdown(t, p, cb)
    \/ \E t \in CallerIds, p \in PoolIds, er \in BOOLEAN, force \in BOOLEAN :
         shutdown(t, p, er, force)
    \/ \E t \in CallerIds : ShutdownStep(t)
    \/ \E t \in CallerIds : ShutdownCallback(t)
    \/ \E p \in PoolIds, w \in WorkerIds : WorkerGet(p, w)

SpecCallbacks == InitPool /\ [][NextCallbacks]_vars

\* The process-wide registry and the two hooks: pools are constructed and
\* shut down one after the other, the program exits, SIGINT arrives.
HookStep(t) ==
    \/ ShutdownPoolsCopy(t)
    \/ ShutdownPoolsLoop(t)
    \/ ExitPools(t)
    \/ ExitRestore(t)
    \/ ExitCall(t)
    \/ SigintPools(t)
    \/ SigintChain(t)

NextHooks ==
    \/ \E t \in CallerIds, mn \in {0, 1} : NewPool(t, mn, 1, 1)
    \/ \E t \in CallerIds, p \in PoolIds, er \in BOOLEAN, force \in BOOLEAN :
         shutdown(t, p, er, force)
    \/ \E t \in CallerIds : SysExit(t)
    \/ Sigint
    \/ \E t \in CallerIds : ShutdownStep(t)
    \/ \E t \in CallerIds : HookStep(t)
    \/ \E p \in PoolIds, w \in WorkerIds : WorkerGet(p, w)

SpecHooks == InitPool /\ [][NextHooks]_vars

\* The launcher, the workflow it is bound to and the workflow's pool.
StopStep(t) ==
    \/ StopLock(t)
    \/ StopBody(t)
    \/ StopUnlock(t)
    \/ OnStopFlags(t)
    \/ OnStopWeb(t)
    \/ OnStopGraphics(t)
    \/ OnStopPool(t)
    \/ OnStopReturn(t)

ShortAddrs == {<<>>, <<"h">>}

NextLauncher ==
    \/ \E t \in CallerIds, mn \in {0, 1} : NoPoolYet /\ NewPool(t, mn, 1, 1)
    \/ \E t \in CallerIds, la \in ShortAddrs, ma \in ShortAddrs, be \in ShortAddrs,
          stealth \in BOOLEAN : NewLauncher(t, la, ma, be, stealth)
    \/ \E t \in CallerIds, w \in PoolIds, plotters \in BOOLEAN, up \in BOOLEAN :
         add_ref(t, w, plotters, up, [i \in 1..MaxFail |-> "ok"])
    \/ \E t \in CallerIds : stop(t)
    \/ \E t \in CallerIds, p \in PoolIds, er \in BOOLEAN, force \in BOOLEAN :
         shutdown(t, p, er, force)
    \/ \E t \in CallerIds : StopStep(t)
    \/ \E t \in CallerIds : ShutdownStep(t)
    \/ \E t \in CallerIds : ShutdownCallback(t)
    \/ \E p \in PoolIds, w \in WorkerIds : WorkerGet(p, w)
    \/ GraphicsExits

SpecLauncher == InitPool /\ [][NextLauncher]_vars

\* The role properties over every pair of addresses.
NextMode ==
    \/ \E t \in CallerIds, la \in AddrStrings, ma \in AddrStrings, be \in ShortAddrs,
          stealth \in BOOLEAN : NewLauncher(t, la, ma, be, stealth)
    \/ \E t \in CallerIds : ReadMode(t)

SpecMode == InitPool /\ [][NextMode]_vars

\* The node lists of the binding scenario: none, one device, two devices
\* twice (written with white space around the commas).
BindNodes ==
    {<<>>,
     <<"h", "/", "0", ":", "0">>,
     <<" ", "h", "/", "1", ":", "0", "-", "1", "x", "2", " ", ",", " ">>}

\* The listen addresses of the binding scenario: none, one without a port
\* separator, one with a host and one without.
BindAddrs == {<<>>, <<"h">>, <<"h", ":">>, <<":", "h">>}

\* A launcher of any role is bound to the workflows of the pools; the remote
\* launches succeed or fail.
NextBind ==
    \/ \E t \in CallerIds : NewPool(t, 0, 1, 1)
    \/ ~launcher.made /\ \E t \in CallerIds, la \in BindAddrs, ma \in ShortAddrs,
                             stealth \in BOOLEAN, nodes \in BindNodes :
         NewLauncherNodes(t, la, ma, <<>>, stealth, nodes, <<"veles", "wf">>)
    \/ \E t \in CallerIds, w \in PoolIds, up \in BOOLEAN, oc \in PlansFrom(Len(remote)) :
         add_ref(t, w, FALSE, up, oc)

SpecBind == InitPool /\ [][NextBind]_vars

\* A node entry x/platform:min[-max][xN] as the user writes it; max < 0
\* stands for no "-max" and mult = 0 for no "xN".
NodeString(plat, min, max, mult) ==
    <<"x", "/">> \o Fmt(plat) \o <<":">> \o Fmt(min)
        \o (IF max < 0 THEN <<>> ELSE <<"-">> \o Fmt(max))
        \o (IF mult = 0 THEN <<>> ELSE <<"x">> \o Fmt(mult))

NodeParams ==
    {n \in [plat : 0..1, min : 0..MaxDev, max : -1..MaxDev, mult : 0..MaxMult] :
        n.max < 0 \/ n.min <= n.max}

\* The three entries of the help text of --nodes and the list of the three.
Example1 == <<"h", "/", "0", ":", "0">>
Example2 == <<"h", "/", "1", ":", "0", "-", "2">>
Example3 == <<"h", "/", "0", ":", "2", "-", "3", "x", "3">>
Examples == Example1 \o <<",", " ">> \o Example2 \o <<",">> \o Example3

NodeInputs ==
    {NodeString(n.plat, n.min, n.max, n.mult) : n \in NodeParams}
        \cup {Example1, Example2, Example3, Examples}

\* The words of a command line: the flags _launch_nodes removes, another
\* flag, a value and a positional argument.
ArgWords == ignored_args \cup {"-f", "v", "wf"}

ArgvInputs == {<<"veles">> \o a : a \in UNION {[1..n -> ArgWords] : n \in 0..MaxArgs}}

\* A master launches the slaves of its node list with its own command line.
NextNodes ==
    \/ \E t \in CallerIds : NoPoolYet /\ NewPool(t, 0, 1, 1)
    \/ ~launcher.made /\ \E t \in CallerIds, nodes \in NodeInputs :
         NewLauncherNodes(t, <<"h", ":">>, <<>>, <<>>, TRUE, nodes, <<"veles">>)
    \/ ~launcher.made /\ \E t \in CallerIds, la \in {<<"h", ":">>, <<":", "h">>}, argv \in ArgvInputs :
         NewLauncherNodes(t, la, <<>>, <<>>, TRUE, Example1, argv)
    \/ \E t \in CallerIds, w \in PoolIds :
         add_ref(t, w, FALSE, TRUE, [i \in 1..MaxFail |-> "ok"])

SpecNodes == InitPool /\ [][NextNodes]_vars

\* The statements of run() and the steps of the reactor.
RunStep(t) ==
    \/ PreRunLock(t)
    \/ PreRunBody(t)
    \/ ReactorRun(t)
    \/ ReactorCallsStop(t)
    \/ ReactorShutdown(t)
    \/ ReactorFault(t)
    \/ RunFinally(t)

\* The life of a launcher: it is constructed, bound, run and stopped, in any
\* order the program likes.
NextRun ==
    \/ \E t \in CallerIds, mn \in {0, 1} : NoPoolYet /\ NewPool(t, mn, 1, 1)
    \/ ~launcher.made /\ \E t \in CallerIds, la \in ShortAddrs, ma \in ShortAddrs,
                            stealth \in BOOLEAN : NewLauncher(t, la, ma, <<>>, stealth)
    \/ \E t \in CallerIds, w \in PoolIds :
         add_ref(t, w, FALSE, TRUE, [i \in 1..MaxFail |-> "ok"])
    \/ \E t \in CallerIds : run(t)
    \/ \E t \in CallerIds : stop(t)
    \/ \E t \in CallerIds, p \in PoolIds : shutdown(t, p, TRUE, FALSE)
    \/ \E t \in CallerIds : RunStep(t)
    \/ \E t \in CallerIds : DarunCallback(t)
    \/ \E t \in CallerIds : StopStep(t)
    \/ \E t \in CallerIds : ShutdownStep(t)
    \/ \E t \in CallerIds : ShutdownCallback(t)
    \/ \E p \in PoolIds, w \in WorkerIds : WorkerGet(p, w)
    \/ \E p \in PoolIds, w \in WorkerIds : WorkerDone(p, w)

SpecRun == InitPool /\ [][NextRun]_vars

\* A master or standalone launcher with plots: it is bound, run and stopped
\* by a call scheduled on the reactor, while the graphics client lives and
\* the workflow goes on.
NextTeardown ==
    \/ \E t \in CallerIds : NoPoolYet /\ NewPool(t, 0, 1, 1)
    \/ ~launcher.made /\ \E t \in CallerIds, la \in ShortAddrs, stealth \in BOOLEAN :
                            NewLauncher(t, la, <<>>, <<"h">>, stealth)
    \/ \E t \in CallerIds, w \in PoolIds, plotters \in BOOLEAN :
         add_ref(t, w, plotters, TRUE, [i \in 1..MaxFail |-> "ok"])
    \/ \E t \in CallerIds : run(t)
    \/ \E t \in CallerIds : stop(t)
    \/ \E t \in CallerIds : RunStep(t)
    \/ \E t \in CallerIds : StopStep(t)
    \/ \E t \in CallerIds : ShutdownStep(t)
    \/ \E t \in CallerIds : ShutdownCallback(t)
    \/ \E p \in PoolIds, w \in WorkerIds : WorkerGet(p, w)
    \/ GraphicsExits
    \/ set_webagg_port(1)

SpecTeardown == InitPool /\ [][NextTeardown]_vars

\* A standalone launcher: the main thread runs it, the workflow
\* runs on the pool and ends one way or another, while another thread of the
\* program hands more tasks to the pool.
NextStandalone ==
    \/ \E t \in CallerIds : NoPoolYet /\ NewPool(t, 0, 1, MaxQueue)
    \/ ~launcher.made /\ \E t \in CallerIds : NewLauncher(t, <<>>, <<>>, <<>>, TRUE)
    \/ \E t \in CallerIds, w \in PoolIds :
         add_ref(t, w, FALSE, TRUE, [i \in 1..MaxFail |-> "ok"])
    \/ \E t \in CallerIds : StartThread(t)
    \/ launcher.running /\ \E t \in CallerIds, p \in PoolIds : request(t, p, FALSE)
    \/ run(MainThread)
    \/ \E t \in CallerIds : stop(t)
    \/ \E t \in CallerIds : RunStep(t)
    \/ \E t \in CallerIds : DarunCallback(t)
    \/ \E t \in CallerIds : StopStep(t)
    \/ \E t \in CallerIds : ShutdownStep(t)
    \/ \E t \in CallerIds : ShutdownCallback(t)
    \/ \E p \in PoolIds, w \in WorkerIds : WorkerGet(p, w)
    \/ \E p \in PoolIds, w \in WorkerIds : WorkerDone(p, w)

SpecStandalone == InitPool /\ [][NextStandalone]_vars

\* A master or standalone launcher, run by the main thread and
\* stopped by any thread of the program or by a call scheduled on the reactor.
NextStop ==
    \/ \E t \in CallerIds : NoPoolYet /\ NewPool(t, 0, 1, 1)
    \/ ~launcher.made /\ \E t \in CallerIds, la \in ShortAddrs :
                            NewLauncher(t, la, <<>>, <<>>, TRUE)
    \/ \E t \in CallerIds, w \in PoolIds :
         add_ref(t, w, FALSE, TRUE, [i \in 1..MaxFail |-> "ok"])
    \/ \E t \in CallerIds : StartThread(t)
    \/ run(MainThread)
    \/ \E t \in CallerIds : stop(t)
    \/ \E t \in CallerIds : RunStep(t)
    \/ \E t \in CallerIds : DarunCallback(t)
    \/ \E t \in CallerIds : StopStep(t)
    \/ \E t \in CallerIds : ShutdownStep(t)
    \/ \E t \in CallerIds : ShutdownCallback(t)
    \/ \E p \in PoolIds, w \in WorkerIds : WorkerGet(p, w)
    \/ \E p \in PoolIds, w \in WorkerIds : WorkerDone(p, w)

SpecStop == InitPool /\ [][NextStop]_vars

\* A launcher that reports its status; the clock is watched from the moment
\* the timer is armed.
NextNotify ==
    \/ \E t \in CallerIds : NoPoolYet /\ NewPool(t, 0, 1, 1)
    \/ ~launcher.made /\ \E t \in CallerIds, la \in ShortAddrs, ma \in ShortAddrs,
                            stealth \in BOOLEAN : NewLauncher(t, la, ma, <<>>, stealth)
    \/ \E t \in CallerIds, w \in PoolIds :
         add_ref(t, w, FALSE, TRUE, [i \in 1..MaxFail |-> "ok"])
    \/ \E t \in CallerIds : run(t)
    \/ \E t \in CallerIds : stop(t)
    \/ \E t \in CallerIds : RunStep(t)
    \/ \E t \in CallerIds : DarunCallback(t)
    \/ \E t \in CallerIds : StopStep(t)
    \/ \E t \in CallerIds : ShutdownStep(t)
    \/ \E t \in CallerIds : ShutdownCallback(t)
    \/ \E p \in PoolIds, w \in WorkerIds : WorkerGet(p, w)
    \/ \E p \in PoolIds, w \in WorkerIds : WorkerDone(p, w)
    \/ \E t \in CallerIds : NotifyStatus(t)
    \/ \E s \in 0..MaxClock : RequestEnds(s)
    \/ launcher.notify_task = "running" /\ TimePasses

SpecNotify == InitNotify /\ [][NextNotify]_vars

\* One pool shut down by two threads of the program, with callbacks that may
\* raise.
NextShutdowns ==
    \/ \E t \in CallerIds, mn \in {0, 1} : NoPoolYet /\ NewPool(t, mn, 1, 1)
    \/ \E t \in CallerIds : StartThread(t)
    \/ \E t \in CallerIds, p \in PoolIds, cb \in {"A", Faulty} :
         register_on_shutdown(t, p, cb)
    \/ \E t \in CallerIds, p \in PoolIds : shutdown(t, p, TRUE, FALSE)
    \/ \E t \in CallerIds : ShutdownStep(t)
    \/ \E t \in CallerIds : ShutdownCallback(t)
    \/ \E t \in CallerIds : ShutdownCallbackRaises(t)
    \/ \E p \in PoolIds, w \in WorkerIds : WorkerGet(p, w)

SpecShutdowns == InitPool /\ [][NextShutdowns]_vars

\* Devices are constructed one after the other, in one process or several,
\* over the same cache file.
NextDevice ==
    \/ \E desc \in Descs, test_known \in BOOLEAN, test_unknown \in BOOLEAN :
         /\ ~RunsTests(test_known, test_unknown, device_infos.map[desc].present)
         /\ NewDevice(desc, test_known, test_unknown, desc,
                      [t \in DTypes |-> Never], [t \in DTypes |-> [b \in 1..2 |-> Failed]])
    \/ \E desc \in Descs, test_known \in BOOLEAN, test_unknown \in BOOLEAN :
         /\ RunsTests(test_known, test_unknown, device_infos.map[desc].present)
         /\ \E first \in Descs, cpu \in [DTypes -> Times], plan \in [DTypes -> Plans] :
              NewDevice(desc, test_known, test_unknown, first, cpu, plan)
    \/ RemoveCache

SpecDevice == InitPool /\ [][NextDevice]_vars

\* Devices that are tested whatever the cache knows (config.test_known_device
\* and config.test_unknown_device both set).
NextSweep ==
    \/ \E desc \in Descs, first \in Descs, cpu \in [DTypes -> Times],
          plan \in [DTypes -> Plans] :
         NewDevice(desc, TRUE, TRUE, first, cpu, plan)
    \/ RemoveCache

SpecSweep == InitPool /\ [][NextSweep]_vars

(***************************************************************************)
(* Properties.                                                             *)
(***************************************************************************)
NeverRun == launcher.reactor = "idle" /\ ~launcher.running

\* Thread t waits in `with self._lock` for the lock it holds itself.
SelfDeadlocked(t) == At(t, "stop", "lock") /\ launcher.lock = t

\* C1: on a launcher bound by add_ref and never run, the stop() calls of the
\* program return without raising, and after each of them the launcher is
\* uninitialized and not running.
C1_StopTwiceReturns ==
    (launcher.workflow # 0 /\ NeverRun) =>
        /\ \A t \in CallerIds :
             (~Idle(t) /\ stack[t][1].op = "stop") => ~SelfDeadlocked(t)
        /\ \A i \in 1..Len(g.stops) :
             /\ g.stops[i].outcome = "returned"
             /\ ~g.stops[i].initialized
             /\ ~g.stops[i].running

\* C2: a shutdown() call on a pool that is not in the registry or is already
\* shutting down returns at once: no callback runs, no WorkerStop is put on
\* the queue, no thread is joined, the registry and the pool are unchanged.
C2_NoopShutdown ==
    [][\A t \in CallerIds :
         (/\ At(t, "shutdown", "guard")
          /\ ~Registered(Top(t).p) \/ pool[Top(t).p].shutting_down
          /\ stack'[t] # stack[t])
         => /\ stack'[t] = SubSeq(stack[t], 1, Len(stack[t]) - 1)
            /\ pools' = pools
            /\ pool' = pool
            /\ wk' = wk
            /\ g'.cbLog = g.cbLog]_vars

\* A call made from inside a callback and a call made after a completed
\* shutdown have both returned as no-ops.
C2_Witness == {"nested", "unregistered"} \subseteq g.noops

\* C3: the callbacks registered when shutdown() starts are called once each,
\* in registration order; all of them have returned before the first
\* WorkerStop is put on the queue; the callback list is empty from then on.
C3_CallbacksInOrder ==
    \A p \in PoolIds :
      /\ g.stopSent[p] => g.cbLog[p] = g.cbs0[p]
      /\ \A t \in CallerIds : \A i \in 1..Len(stack[t]) :
           LET f == stack[t][i]
           IN (f.op = "shutdown" /\ f.p = p) =>
                /\ f.pc = "cb" =>
                     /\ g.cbLog[p] = SubSeq(g.cbs0[p], 1, f.i)
                     /\ ~g.stopSent[p]
                /\ f.pc \in {"stops", "join", "remove"} =>
                     /\ g.cbLog[p] = g.cbs0[p]
                     /\ pool[p].on_shutdowns = <<>>

\* Two different callbacks were registered, both have run and a WorkerStop
\* has been sent.
C3_Witness ==
    \E p \in PoolIds :
      /\ g.stopSent[p]
      /\ Len(g.cbs0[p]) >= 2
      /\ g.cbs0[p][1] # g.cbs0[p][2]

\* C4: once shutdown(execute_remaining=False) has put its first WorkerStop on
\* the queue, no task that was on the queue at that moment is taken by a
\* worker.
C4_NoLateTask == \A p \in PoolIds : g.late[p] = {}

\* C5: when the joins of shutdown(execute_remaining=True, force=False) are
\* over, every task enqueued before the call is done and every worker
\* thread of the pool has ended.
C5_DrainingShutdown ==
    \A t \in CallerIds :
      (At(t, "shutdown", "remove") /\ Top(t).er /\ ~Top(t).force) =>
        /\ \A w \in WorkerIds : ~Alive(Top(t).p, w)
        /\ \A k \in Top(t).t0 : task[Top(t).p][k].st = "done"

\* A draining shutdown is about to return; tasks were still on the queue
\* when its first WorkerStop was sent and two workers were joined.
C5_Witness ==
    \E t \in CallerIds :
      /\ At(t, "shutdown", "remove") /\ Top(t).er /\ ~Top(t).force
      /\ g.queued0[Top(t).p] # {}
      /\ Len(Top(t).lst) >= 2

\* shutdown(force=True) waits in q.put(WorkerStop) on a full queue that no
\* worker will ever take from.
ForceStuck(t) ==
    /\ At(t, "shutdown", "stops") /\ Top(t).force
    /\ pool[Top(t).p].workers > 0
    /\ Full(Top(t).p)
    /\ \A w \in WorkerIds :
         \/ wk[Top(t).p][w].st \in {"none", "dead"}
         \/ /\ wk[Top(t).p][w].st = "busy"
            /\ task[Top(t).p][wk[Top(t).p][w].task].forever

\* C6: shutdown(force=True) always returns, whatever the workers run and
\* however full the queue is.
C6_ForceShutdownReturns == \A t \in CallerIds : ~ForceStuck(t)

\* C7: the hooks are installed once and the saved originals are never
\* overwritten.
C7_HooksInstalledOnce ==
    /\ g.installs <= 1
    /\ sysexit_initial \in {"None", "orig"}
    /\ sigint_initial \in {"None", "orig"}

\* C8: a call of the exit wrapper (made while no shutdown is under way)
\* shuts down every pool registered at the call and then calls the original
\* sys.exit, once.
C8_ExitChainsToOriginal ==
    g.exitClean =>
      /\ g.err # "recursion limit in exit"
      /\ proc = "exited" => (g.exitCalls = 1 /\ g.exitLeft = {})

\* C9: the SIGINT handler (run while no shutdown is under way) shuts down
\* every pool registered at the signal and only then calls the handler that
\* was installed before the first pool, once.
C9_SigintChainsToOriginal ==
    g.sigClean =>
      /\ g.err # "recursion limit in sigint_handler"
      /\ g.sigCalls <= 1
      /\ g.sigCalls = 1 => g.sigLeft = {}

\* C10: is_master iff the listen address is not empty, is_slave iff the
\* master address is not empty, is_standalone iff both are empty; mode is
\* master with only the listen address, slave with only the master address,
\* standalone with neither, and one of the three for every pair.
C10_Roles ==
    mres.mode # "none" =>
      LET l == launcher.listen_address
          m == launcher.master_address
      IN /\ mres.is_master <=> l # <<>>
         /\ mres.is_slave <=> m # <<>>
         /\ mres.is_standalone <=> (l = <<>> /\ m = <<>>)
         /\ (l # <<>> /\ m = <<>>) => mres.mode = "master"
         /\ (l = <<>> /\ m # <<>>) => mres.mode = "slave"
         /\ (l = <<>> /\ m = <<>>) => mres.mode = "standalone"
         /\ mres.mode \in {"master", "slave", "standalone"}

\* mode was read on a launcher that has both addresses.
C10_Witness ==
    /\ mres.mode = "master"
    /\ launcher.listen_address # <<>>
    /\ launcher.master_address # <<>>

\* C11: after every add_ref the agent is a Server exactly when mode reports
\* master, a Client exactly when it reports slave and absent exactly when it
\* reports standalone, and slave nodes are launched only once the Server
\* agent was constructed.
C11_AgentMatchesMode ==
    \A i \in 1..Len(g.refs) :
        LET r == g.refs[i]
        IN r.err = "none" =>
             /\ r.agent = "Server" <=> r.mode = "master"
             /\ r.agent = "Client" <=> r.mode = "slave"
             /\ r.agent = "None" <=> r.mode = "standalone"
             /\ r.nodes > 0 => r.agent = "Server"

\* C14: the bound workflow is set once: an add_ref never finds a workflow
\* already bound, an agent already constructed or the stop triggers already
\* registered.
C14_BoundOnce ==
    /\ launcher.triggers <= 1
    /\ \A i \in 1..Len(g.refs) : g.refs[i].was = 0 /\ g.refs[i].agent0 = "None"

\* The launches add_ref number i made, as logged.
LaunchesOf(i) ==
    LET r == g.refs[i]
        last == IF i < Len(g.refs) THEN g.refs[i + 1].first - 1 ELSE Len(remote)
    IN [j \in 1..(last - r.first + 1) |->
          [host |-> remote[r.first + j - 1].host, prog |-> remote[r.first + j - 1].prog]]

\* C17: whatever the outcomes of the remote launches, an add_ref whose node
\* entries and listen address are well formed attempts the launch of the
\* status server (when it is not up) and of every expanded node once, in
\* order, and completes with the launcher initialized.
C17_BestEffortLaunch ==
    \A i \in 1..Len(g.refs) :
        LET r == g.refs[i]
        IN r.parsed =>
             /\ r.err = "none"
             /\ r.initialized
             /\ LaunchesOf(i) = (IF r.status THEN <<StatusProgram>> ELSE <<>>)
                                   \o (IF r.agent = "Server"
                                       THEN launch_nodes(launcher).launches ELSE <<>>)

\* a failed launch in the middle of the expansion of a node, the launcher
\* initialized
C17_Witness ==
    /\ Len(g.refs) = 1
    /\ launcher.initialized
    /\ Len(remote) = 5
    /\ remote[1].outcome = "connect"
    /\ remote[2].outcome = "exec"
    /\ remote[5].outcome = "ok"

\* The selector -d platform:d in the number-th launch of a node entry whose
\* devices go from min to max.
Selector(plat, min, max, number) ==
    Text(Fmt(plat) \o <<":">> \o Fmt(min + ((number - 1) % (max - min + 1))))

\* The launches of the first add_ref: host and the last two words (-d and the
\* selector) of every command.
Selected ==
    [j \in 1..Len(LaunchesOf(1)) |->
        LET l == LaunchesOf(1)[j]
        IN <<l.host, l.prog[Len(l.prog) - 1], l.prog[Len(l.prog)]>>]

Expansion(host, plat, min, max, mult) ==
    [j \in 1..(mult * (max - min + 1)) |->
        <<host, Word("-d"), Selector(plat, min, max, j)>>]

\* C15: the entry host/platform:min[-max][xN] gives N * (max - min + 1)
\* launches on host, each with -d platform:d, d going from min to max in
\* every repetition; host/0:0 gives one launch with 0:0, host/1:0-2 three
\* with 1:0, 1:1, 1:2 and host/0:2-3x3 six.
C15_NodeExpansion ==
    (Len(g.refs) >= 1 /\ launcher.argv = <<"veles">>) =>
        /\ \A n \in NodeParams :
             launcher.slaves = <<NodeString(n.plat, n.min, n.max, n.mult)>> =>
                Selected = Expansion(<<"x">>, n.plat, n.min,
                                     IF n.max < 0 THEN n.min ELSE n.max,
                                     IF n.mult = 0 THEN 1 ELSE n.mult)
        /\ launcher.slaves = <<Example1>> =>
             Selected = <<<<<<"h">>, Word("-d"), Text(<<"0", ":", "0">>)>>>>
        /\ launcher.slaves = <<Example2>> =>
             Selected = <<<<<<"h">>, Word("-d"), Text(<<"1", ":", "0">>)>>,
                          <<<<"h">>, Word("-d"), Text(<<"1", ":", "1">>)>>,
                          <<<<"h">>, Word("-d"), Text(<<"1", ":", "2">>)>>>>
        /\ launcher.slaves = <<Example3>> =>
             /\ Len(Selected) = 6
             /\ Selected = Expansion(<<"h">>, 0, 2, 3, 3)
        /\ launcher.slaves = <<Example1, Example2, Example3>> =>
             Selected = Expansion(<<"h">>, 0, 0, 0, 1) \o Expansion(<<"h">>, 1, 0, 2, 1)
                            \o Expansion(<<"h">>, 0, 2, 3, 3)

\* the list of the three examples was expanded to its ten launches and an
\* entry of two devices launched three times to its six
C15_Witness ==
    /\ Len(g.refs) = 1
    /\ launcher.argv = <<"veles">>
    /\ \/ launcher.slaves = <<Example1, Example2, Example3>> /\ Len(remote) = 10
       \/ launcher.slaves = <<NodeString(1, 2, 3, 3)>> /\ Len(remote) = 6

\* The flags of ignored_args that take a value; -b/--background and
\* -s/--stealth are switches (lines 75-83).
ValueFlags == {"-l", "--listen-address", "-n", "--nodes", "-p", "--matplotlib-backend",
               "-d", "--device"}

RECURSIVE Kept(_, _)
\* argv[i..] without the listed flags and without the value of each of them
Kept(argv, i) ==
    IF i > Len(argv) THEN <<>>
    ELSE IF argv[i] \in ValueFlags THEN Kept(argv, i + 2)
    ELSE IF argv[i] \in ignored_args THEN Kept(argv, i + 1)
    ELSE <<Word(argv[i])>> \o Kept(argv, i + 1)

\* C16: the command line of a slave is the original arguments in their order
\* without the listed flags and the value of each, followed by -m host:port
\* and -b (and the device selector).
C16_SlaveCommandLine ==
    \A j \in 1..Len(remote) :
        LET prog == remote[j].prog
        IN SubSeq(prog, 1, Len(prog) - 2) =
             <<Word("veles")>> \o Kept(launcher.argv, 2)
                 \o <<Word("-m"), Text(MasterAddress(launcher.listen_address)), Word("-b")>>

\* C12: run() on a launcher that is not initialized raises "Launcher was not
\* initialized" and changes nothing: running stays false, the reactor, the
\* notification thread and timer are not started, nothing is handed to the pool.
C12_RunRefused ==
    [][\A t \in CallerIds :
         (At(t, "run", "body") /\ ~launcher.initialized /\ stack'[t] # stack[t]) =>
            /\ stack'[t] = <<>>
            /\ g'.err = "Launcher was not initialized"
            /\ launcher' = [launcher EXCEPT !.lock = 0]
            /\ ~launcher'.running
            /\ launcher'.reactor # "running"
            /\ UNCHANGED <<pools, pool, wk, task>>]_vars

\* run() was refused on a launcher that was bound and then torn down
C12_Witness ==
    /\ g.runs # <<>>
    /\ g.runs[Len(g.runs)] = "not initialized"
    /\ launcher.workflow # 0
    /\ ~launcher.initialized
    /\ ~Registered(launcher.workflow)

\* C13: stop() on a launcher that is not initialized returns at once: the
\* flags, the workflow, the agent and the pool are unchanged, _on_stop() is
\* not called and the reactor is not asked to stop.
C13_StopNoop ==
    [][\A t \in CallerIds :
         (At(t, "stop", "body") /\ ~launcher.initialized /\ stack'[t] # stack[t]) =>
            /\ stack'[t] = SubSeq(stack[t], 1, Len(stack[t]) - 1)
            /\ launcher' = [launcher EXCEPT !.lock = 0]
            /\ UNCHANGED <<pools, pool, wk, task>>]_vars

\* stop() has returned on a launcher that was never bound
C13_Witness ==
    /\ g.refs = <<>>
    /\ g.stops # <<>>
    /\ g.stops[1].outcome = "returned"
    /\ launcher.made
    /\ launcher.workflow = 0

\* The measures of a DeviceInfo that _fill_device_info_performance_values
\* copies from the cache.
Measures(info) ==
    [rating |-> info.rating, BLOCK_SIZE |-> info.BLOCK_SIZE, dt |-> info.dt,
     min_dt |-> info.min_dt]

\* C18: for every combination of (device known to the loaded cache, retest
\* known devices, test unknown devices): a known device that is not retested
\* adopts the cached measures and no benchmark runs; an unknown device with
\* the tests of unknown devices disabled keeps the defaults and no benchmark
\* runs; in every other combination a benchmarking pass runs and the cache is
\* rewritten; the cache is written only when a pass ran.
C18_CachePolicy ==
    device.made =>
        /\ (device.known /\ ~device.test_known) =>
              /\ ~device.tested
              /\ Measures(device.device_info) = Measures(device.cached)
        /\ (~device.known /\ ~device.test_unknown) =>
              /\ ~device.tested
              /\ device.device_info = DeviceInfo
        /\ ~( \/ device.known /\ ~device.test_known
              \/ ~device.known /\ ~device.test_unknown ) =>
              /\ device.tested
              /\ device.saved
        /\ device.saved => device.tested

\* The descriptions the cache has an entry for.
Known == {d \in Descs : device_infos.map[d].present}

\* The least best time of the known devices for the dtype t.
BestTime(t) ==
    CHOOSE m \in {device_infos.map[d].dt[t] : d \in Known} :
        \A d \in Known : m <= device_infos.map[d].dt[t]

\* C19: after a benchmarking pass, for each dtype, the rating of every device
\* of the cache is the least best time of the benchmarked device and the
\* devices known before, divided by the best time of that device.
C19_RatingNormalised ==
    (device.made /\ device.tested) =>
        \A d \in Known, t \in DTypes :
            device_infos.map[d].rating[t] =
                Ratio(BestTime(t), device_infos.map[d].dt[t])

\* C30: after any sequence of benchmarking passes every entry of the cache
\* has, for every dtype, a rating in the interval [0, 1], and all the entries
\* record the same minimum time for that dtype.
C30_RatingInUnitInterval ==
    \A d \in Known, t \in DTypes :
        /\ 0 <= device_infos.map[d].rating[t].n
        /\ device_infos.map[d].rating[t].n <= device_infos.map[d].rating[t].d
        /\ \A e \in Known : device_infos.map[e].min_dt[t] = device_infos.map[d].min_dt[t]

\* The calling threads that are executing shutdown() of the pool p.
InShutdown(p) ==
    {t \in CallerIds : \E i \in 1..Len(stack[t]) :
                          stack[t][i].op = "shutdown" /\ stack[t][i].p = p}

\* C27: when two threads call shutdown() on the same registered pool
\* concurrently, one of them performs the shutdown and the other returns as a
\* no-op without raising: the pool is shut down once and list.remove never
\* raises ValueError.
C27_OneShutdown ==
    \A p \in PoolIds :
        /\ g.shut[p] <= 1
        /\ g.err # "ValueError"

\* C28: the shutting_down flag of a pool is true only while a shutdown call
\* on that pool is executing; after a shutdown call has ended, also by an
\* exception of a callback, the flag is false.
C28_FlagOnlyDuringShutdown ==
    \A p \in PoolIds : pool[p].shutting_down => InShutdown(p) # {}

\* C24: whenever run() returns after the reactor was started, whether the
\* reactor halted or reactor.run() raised, the running flag is false and
\* run() returns to its caller without raising.
C24_RunClearsRunning ==
    [][\A t \in CallerIds :
         (At(t, "run", "finally") /\ stack'[t] # stack[t]) =>
            /\ ~launcher'.running
            /\ stack'[t] = <<>>
            /\ g'.runs = Append(g.runs, "returned")
            /\ g'.err = g.err]_vars

\* run() has returned after reactor.run() raised
C24_Witness ==
    /\ launcher.reactor = "crashed"
    /\ g.runs # <<>>
    /\ g.runs[Len(g.runs)] = "returned"
    /\ ~launcher.running
    /\ launcher.initialized

\* The flags are cleared and, when the status is reported, the notification
\* task is stopped and the thread of the IOLoop joined.
WebDown(L) ==
    /\ ~L.initialized /\ ~L.running
    /\ reports_web_status(L) => (L.notify_task = "stopped" /\ L.ioloop_thread = "joined")

\* C25: every teardown proceeds in a fixed order: the flags are cleared
\* first; then, if the status is reported, the notification task and the
\* IOLoop are stopped and the thread joined; then, if plots are enabled, the
\* graphics server is asked to shut down at most 10 times and the client is
\* terminated only if it is still alive afterwards; the pool of the workflow
\* is shut down last.
C25_TeardownOrder ==
    [][\A t \in CallerIds :
         /\ (At(t, "_on_stop", "web") /\ stack'[t] # stack[t] /\ Depth(t) <= Len(stack'[t])) =>
               /\ ~launcher.initialized /\ ~launcher.running
               /\ launcher.graphics = launcher'.graphics
               /\ Registered(launcher.workflow) = (launcher.workflow \in SeqToSet(pools'))
         /\ (At(t, "_on_stop", "graphics") /\ stack'[t] # stack[t]) =>
               /\ WebDown(launcher)
               /\ Top(t).i <= Attempts
               /\ (launcher'.graphics # launcher.graphics) =>
                     /\ launcher.graphics = "launched"
                     /\ launcher'.graphics = "terminated"
                     /\ Top(t).i = Attempts
               /\ pool' = pool /\ pools' = pools
         /\ (At(t, "_on_stop", "pool") /\ stack'[t] # stack[t]) =>
               /\ WebDown(launcher)
               /\ launcher.plotters => launcher.graphics \in {"exited", "terminated"}
               /\ stack'[t][Len(stack'[t])].op = "shutdown"
               /\ stack'[t][Len(stack'[t])].p = launcher.workflow]_vars

\* A teardown that asked the graphics server 10 times, terminated the client
\* and went on to shut the pool down
C25_Witness ==
    /\ launcher.plotters
    /\ launcher.graphics = "terminated"
    /\ reports_web_status(launcher)
    /\ launcher.notify_task = "stopped"
    /\ ~Registered(launcher.workflow)
    /\ g.runs # <<>> /\ g.runs[Len(g.runs)] = "returned"

\* C26: every write to the lifecycle state of the launcher (the initialized
\* flag, the running flag, the port of the plot server) is made by a thread
\* that holds the lock of the launcher: by a step of a thread that holds it,
\* by add_ref(), which @threadsafe wraps, or by the finally clause of run().
C26_WritesUnderLock ==
    [][(\/ launcher'.initialized # launcher.initialized
        \/ launcher'.running # launcher.running
        \/ launcher'.webagg_port # launcher.webagg_port) =>
          \/ \E t \in CallerIds : launcher.lock = t /\ stack'[t] # stack[t]
          \/ g'.refs # g.refs
          \/ \E t \in CallerIds : At(t, "run", "finally") /\ stack'[t] # stack[t]]_vars

(***************************************************************************)
(* The workflow's run on the pool and the shutdown chained to it.          *)
(***************************************************************************)
\* The reactor called shutdown() straight from its loop: the callback of darun.
ChainedShutdown(t) ==
    /\ Depth(t) >= 2
    /\ stack[t][1].op = "run"
    /\ stack[t][2].op = "shutdown"

\* C23: in standalone mode the shutdown chained to the end of the workflow's
\* run has execute_remaining true and force false whatever the run returned,
\* and no task that was queued on the pool is left undispatched by it.
C23_ChainedShutdownDefault ==
    \A t \in CallerIds :
        ChainedShutdown(t) =>
            /\ stack[t][2].er
            /\ ~stack[t][2].force
            /\ g.undisp[stack[t][2].p] = {}

\* Nothing of the program is left to act: the reactor sits in its loop with
\* no call to make, every other thread is out of the launcher and the pool,
\* no worker is busy and no queue holds a task.
Quiet(t) ==
    /\ At(t, "run", "loop") /\ Depth(t) = 1
    /\ launcher.reactor = "running"
    /\ \A u \in CallerIds \ {t} : Idle(u)
    /\ \A p \in PoolIds :
         /\ \A w \in WorkerIds : wk[p][w].st # "busy"
         /\ \A k \in TaskIds : task[p][k].st # "queued"
                               /\ task[p][k].darun \notin {"True", "None"}

\* C22: in standalone mode, once the workflow's run on the pool has ended,
\* by returning or by raising, the pool is shut down and run() returns: run()
\* is never left in a reactor that has nothing more to do while the
\* workflow's run is over.
C22_RunReturnsAfterWorkflow ==
    \A t \in CallerIds :
        Quiet(t) =>
            \A k \in TaskIds :
                launcher.workflow # 0 =>
                    ~(/\ task[launcher.workflow][k].st = "done"
                      /\ task[launcher.workflow][k].darun # "none")

(***************************************************************************)
(* stop() of a running launcher.                                           *)
(***************************************************************************)
\* A stop() of the program went down the reactor.stop() branch (lines
\* 251-256): it returned leaving the launcher initialized and running.
StopRequested ==
    \E i \in 1..Len(g.stops) :
        /\ g.stops[i].outcome = "returned"
        /\ g.stops[i].initialized
        /\ g.stops[i].running

\* C21: stop() called while the launcher is running makes the reactor halt,
\* so that teardown runs and run() returns: within the first run() of the
\* launcher, once such a stop() has returned, the reactor is never found
\* running with nothing left to do.
C21_StopEndsRun ==
    ~(/\ g.runs = <<>>
      /\ StopRequested
      /\ Quiet(MainThread))

(***************************************************************************)
(* Status notifications.                                                   *)
(***************************************************************************)
\* C29: at most one status request is in flight at any time; every
\* notification is issued a full interval or more after run() armed the
\* timer, with every earlier request ended; the launcher that issues one
\* reports its status, so it is neither a slave nor stealthy.
C29_OneRequestInFlight ==
    /\ Cardinality(web.inflight) <= 1
    /\ \A i \in 1..Len(g.ticks) :
         /\ g.ticks[i].at >= g.ticks[i].started + Period(web)
         /\ g.ticks[i].others = {}
    /\ g.ticks # <<>> => ~launcher.stealth /\ ~is_slave(launcher)

(***************************************************************************)
(* The sweep over the block sizes.                                         *)
(***************************************************************************)
\* The block sizes of the last pass whose build and run succeeded for type t.
Succeeded(t) == {b \in LastBlock..FirstBlock : g.plan[t][Band(b)] # Failed}

\* The time measured for type t with block size b.
Measured(t, b) == g.plan[t][Band(b)]

\* The block sizes that reached the least time measured for type t.
Fastest(t) == {b \in Succeeded(t) : \A c \in Succeeded(t) : Measured(t, b) <= Measured(t, c)}

\* C31: after a benchmarking pass, for each data type, the recorded time is
\* the least time measured over the block sizes 32 down to 4 that succeeded
\* and the recorded block size is the largest one that reached it; failed
\* combinations are skipped and the others still measured; when every
\* combination failed the time stays 86400 and the block size stays 8.
C31_SweepKeepsBest ==
    device.tested =>
        \A t \in DTypes :
            IF Succeeded(t) = {}
            THEN /\ device.device_info.dt[t] = Never
                 /\ device.device_info.BLOCK_SIZE[t] = DefaultBlock
            ELSE /\ device.device_info.BLOCK_SIZE[t] \in Fastest(t)
                 /\ \A b \in Fastest(t) : b <= device.device_info.BLOCK_SIZE[t]
                 /\ device.device_info.dt[t] =
                        Measured(t, device.device_info.BLOCK_SIZE[t])

\* A pass in which the larger block sizes failed for a type and the smaller
\* ones were measured all the same: the record is the largest of them.
C31_Witness ==
    /\ device.tested
    /\ \E t \in DTypes :
         /\ g.plan[t][1] = Failed
         /\ g.plan[t][2] # Failed
         /\ device.device_info.dt[t] = g.plan[t][2]
         /\ device.device_info.BLOCK_SIZE[t] = 16
====
